---------------------------- MODULE Spec2Model ----------------------------
(***************************************************************************)
(* The "Essentials of interpretation" evaluators (lessons 5, 6 and 7):    *)
(* evaluate / apply over array-encoded expressions, with environments     *)
(* implemented as JavaScript objects chained through their prototypes.    *)
(*                                                                         *)
(* JavaScript strings are sequences of one-character strings, so that the *)
(* regular expressions and the String(...) conversions of the source are  *)
(* computed and not assumed.  Every JavaScript value is a record          *)
(*   [t, n, s, a, env]                                                     *)
(* t the type, n the number, s the characters, a the array elements and   *)
(* env the frame an object refers to (a function object's .environment).  *)
(***************************************************************************)
EXTENDS Integers, Sequences, FiniteSets, TLC

VARIABLES
  lesson,       \* which evaluator file is loaded: 5, 6 or 7
  frames,       \* the heap of environment objects; frames[i].parent is the prototype
  expression,   \* the expression of the last top-level evaluate call
  environment,  \* its environment argument (0: omitted)
  result,       \* the value it returned (undefined when it threw)
  status,       \* "ok", or the error it threw
  trace,        \* the evaluate calls and the prints of that call, in order
  before,       \* the heap as it was when that call started (history)
  calls         \* the number of top-level calls made so far

vars == <<lesson, frames, expression, environment, result, status, trace, before, calls>>

\* ----------------------------------------------------------------- bounds
MaxCalls == 3
MaxDepth == 12

\* ------------------------------------------------------- JavaScript values
Num(k) == [t |-> "num", n |-> k, s |-> <<>>, a |-> <<>>, env |-> 0]
Str(cs) == [t |-> "str", n |-> 0, s |-> cs, a |-> <<>>, env |-> 0]
Bool(b) == [t |-> "bool", n |-> IF b THEN 1 ELSE 0, s |-> <<>>, a |-> <<>>, env |-> 0]
Null == [t |-> "null", n |-> 0, s |-> <<>>, a |-> <<>>, env |-> 0]
Undef == [t |-> "undef", n |-> 0, s |-> <<>>, a |-> <<>>, env |-> 0]
NaN == [t |-> "nan", n |-> 0, s |-> <<>>, a |-> <<>>, env |-> 0]
Arr(es) == [t |-> "arr", n |-> 0, s |-> <<>>, a |-> es, env |-> 0]
\* a native (JavaScript) function, named by the characters cs
Native(cs) == [t |-> "native", n |-> 0, s |-> cs, a |-> <<>>, env |-> 0]
\* a reference to the environment object f itself (what reading __proto__ yields)
Obj(f) == [t |-> "obj", n |-> 0, s |-> <<>>, a |-> <<>>, env |-> f]

\* ------------------------------------------------------------- characters
Digits == <<"0", "1", "2", "3", "4", "5", "6", "7", "8", "9">>
DigitChars == {Digits[i] : i \in 1..10}
LowerChars == {"a", "b", "c", "d", "e", "f", "g", "h", "i", "j", "k", "l", "m",
               "n", "o", "p", "q", "r", "s", "t", "u", "v", "w", "x", "y", "z"}
UpperChars == {"A", "B", "C", "D", "E", "F", "G", "H", "I", "J", "K", "L", "M",
               "N", "O", "P", "Q", "R", "S", "T", "U", "V", "W", "X", "Y", "Z"}
\* /^([a-z-A-Z0-9_$+*/\-])+$/ of lessons 5 and 6
VariableChars56 == LowerChars \cup UpperChars \cup DigitChars \cup {"-", "_", "$", "+", "*", "/"}
\* /^([a-z-A-Z0-9_$+*/\-?!=><])+$/ of lesson 7
VariableChars7 == VariableChars56 \cup {"?", "!", "=", ">", "<"}

DigitValue(c) == CHOOSE i \in 0..9 : Digits[i + 1] = c

RECURSIVE NatToChars(_)
NatToChars(k) ==
  IF k < 10 THEN <<Digits[k + 1]>>
  ELSE NatToChars(k \div 10) \o <<Digits[(k % 10) + 1]>>

RECURSIVE CharsToNat(_)
CharsToNat(cs) ==
  IF cs = <<>> THEN 0
  ELSE 10 * CharsToNat(SubSeq(cs, 1, Len(cs) - 1)) + DigitValue(cs[Len(cs)])

\* String(v), the conversion behind RegExp.test, == and property keys.
\* Array.prototype.join writes null and undefined as the empty string.
RECURSIVE ToStr(_)
RECURSIVE Join(_)
Join(es) ==
  IF es = <<>> THEN <<>>
  ELSE LET h == IF es[1].t \in {"null", "undef"} THEN <<>> ELSE ToStr(es[1])
       IN IF Len(es) = 1 THEN h ELSE h \o <<",">> \o Join(Tail(es))

ToStr(v) ==
  CASE v.t = "num" -> IF v.n < 0 THEN <<"-">> \o NatToChars(0 - v.n) ELSE NatToChars(v.n)
    [] v.t = "str" -> v.s
    [] v.t = "bool" -> IF v.n = 1 THEN <<"t", "r", "u", "e">> ELSE <<"f", "a", "l", "s", "e">>
    [] v.t = "null" -> <<"n", "u", "l", "l">>
    [] v.t = "undef" -> <<"u", "n", "d", "e", "f", "i", "n", "e", "d">>
    [] v.t = "nan" -> <<"N", "a", "N">>
    [] v.t = "arr" -> Join(v.a)
    [] v.t = "native" -> <<"f", "u", "n", "c", "t", "i", "o", "n", " ">> \o v.s \o <<"(", ")", " ", "{", "}">>
    [] v.t = "obj" -> <<"[", "o", "b", "j", "e", "c", "t", " ", "O", "b", "j", "e", "c", "t", "]">>

\* The strings Number(...) converts to a number: the empty string and the
\* decimal integers (the only numeric literals of the modelled programs).
IsIntString(cs) ==
  LET ds == IF cs # <<>> /\ cs[1] \in {"-", "+"} THEN Tail(cs) ELSE cs
  IN ds # <<>> /\ \A i \in 1..Len(ds) : ds[i] \in DigitChars

StrToNum(cs) ==
  IF cs = <<>> THEN Num(0)
  ELSE IF ~IsIntString(cs) THEN NaN
  ELSE IF cs[1] = "-" THEN Num(0 - CharsToNat(Tail(cs)))
  ELSE IF cs[1] = "+" THEN Num(CharsToNat(Tail(cs)))
  ELSE Num(CharsToNat(cs))

\* Number(v)
ToNum(v) ==
  CASE v.t = "num" -> v
    [] v.t = "bool" -> Num(v.n)
    [] v.t = "null" -> Num(0)
    [] v.t \in {"undef", "nan"} -> NaN
    [] v.t \in {"str", "arr", "native", "obj"} -> StrToNum(ToStr(v))

\* Boolean(v)
Truthy(v) ==
  CASE v.t = "num" -> v.n # 0
    [] v.t = "bool" -> v.n = 1
    [] v.t = "str" -> v.s # <<>>
    [] v.t \in {"null", "undef", "nan"} -> FALSE
    [] v.t \in {"arr", "native", "obj"} -> TRUE

\* v[i] (zero-based), for the values the evaluator indexes
Index(v, i) ==
  CASE v.t = "arr" -> IF i < Len(v.a) THEN v.a[i + 1] ELSE Undef
    [] v.t = "str" -> IF i < Len(v.s) THEN Str(<<v.s[i + 1]>>) ELSE Undef
    [] OTHER -> Undef

\* v.slice(k) of an array
Slice(v, k) == Arr(SubSeq(v.a, k + 1, Len(v.a)))

\* x == "tag" where the right side is a string that is no numeric literal
LooseEqualsString(x, cs) ==
  CASE x.t = "str" -> x.s = cs
    [] x.t \in {"arr", "native", "obj"} -> ToStr(x) = cs
    [] OTHER -> FALSE


\* ------------------------------------------------------------ error names
\* status values: "ok"; ReferenceError and TypeError are the host's errors,
\* "ArityError" and "ElseError" the two strings the evaluator throws itself,
\* "RangeError" the host's stack exhaustion, "Unmodelled" a host behaviour
\* outside this model (never reached by the programs below).
Errors == {"ReferenceError", "TypeError", "ArityError", "ElseError", "RangeError", "Unmodelled"}

\* ----------------------------------------------------------- predicates
\* mutant: only numbers are literals, the quoted symbols are forgotten
isSelfEvaluatingNumbers(e) == ToNum(e).t # "nan"

isSelfEvaluating(e) ==
  ToNum(e).t # "nan" \/ (e.t = "str" /\ e.s # <<>> /\ e.s[1] = "'")

isVariable(e, L) ==
  LET cs == ToStr(e)
      class == IF L = 7 THEN VariableChars7 ELSE VariableChars56
  IN cs # <<>> /\ \A i \in 1..Len(cs) : cs[i] \in class

\* exp[0] == tag; reading [0] of null or undefined throws a TypeError
isTaggedListThrows(e) == e.t \in {"null", "undef"}
isTaggedList(tag, e) == LooseEqualsString(Index(e, 0), tag)

DefineTag == <<"d", "e", "f", "i", "n", "e">>
SetTag == <<"s", "e", "t", "!">>
LambdaTag == <<"l", "a", "m", "b", "d", "a">>
BeginTag == <<"b", "e", "g", "i", "n">>
IfTag == <<"i", "f">>
CondTag == <<"c", "o", "n", "d">>
ElseTag == <<"e", "l", "s", "e">>
FunctionTag == <<"f", "u", "n", "c", "t", "i", "o", "n">>

isDefinition(e) == isTaggedList(DefineTag, e)
isAssignment(e) == isTaggedList(SetTag, e)
isLambda(e) == isTaggedList(LambdaTag, e)
isBlock(e) == isTaggedList(BeginTag, e)
isIf(e) == isTaggedList(IfTag, e)
isCond(e) == isTaggedList(CondTag, e)
isApplication(e) == e.t = "arr"
isBuiltInFunction(p) == p.t = "native"
isUserDefinedFunction(p) == isTaggedList(FunctionTag, p)

\* ---------------------------------------------------------- environments
\* frames[ObjectPrototype] is Object.prototype, which "var TheGlobalEnvironment = {}"
\* makes the prototype of the global environment.
ObjectPrototype == 1
TheGlobalEnvironment == 2

ConstructorKey == <<"c", "o", "n", "s", "t", "r", "u", "c", "t", "o", "r">>
HasOwnPropertyKey == <<"h", "a", "s", "O", "w", "n", "P", "r", "o", "p", "e", "r", "t", "y">>
ProtoKey == <<"_", "_", "p", "r", "o", "t", "o", "_", "_">>
ToStringKey == <<"t", "o", "S", "t", "r", "i", "n", "g">>
\* the accessor property Object.prototype.__proto__
Accessor == [t |-> "accessor", n |-> 0, s |-> <<>>, a |-> <<>>, env |-> 0]

\* the properties of Object.prototype whose names the variable grammar admits
\* (valueOf, isPrototypeOf, ... behave as constructor does)
ObjectPrototypeFrame ==
  [parent |-> 0,
   b |-> (ConstructorKey :> Native(ConstructorKey)) @@
         (HasOwnPropertyKey :> Native(HasOwnPropertyKey)) @@
         (ToStringKey :> Native(<<"O", "b", "j", "e", "c", "t", ".", "t", "o", "S", "t", "r", "i", "n", "g">>)) @@
         (ProtoKey :> Accessor)]

\* extendJSObject(TheGlobalEnvironment, {...}) of each lesson
GlobalBindings(L) ==
  IF L = 7
  THEN (ToStringKey :> Native(ToStringKey)) @@
       (<<">">> :> Native(<<">">>)) @@
       (<<"=">> :> Native(<<"=">>)) @@
       (<<"n", "u", "l", "l", "?">> :> Native(<<"n", "u", "l", "l", "?">>)) @@
       (<<"n", "u", "l", "l">> :> Null) @@
       (<<"+">> :> Native(<<"+">>)) @@
       (<<"-">> :> Native(<<"-">>)) @@
       (<<"p", "r", "i", "n", "t">> :> Native(<<"p", "r", "i", "n", "t">>))
  ELSE (ToStringKey :> Native(ToStringKey)) @@
       (<<"+">> :> Native(<<"+">>)) @@
       (<<"*">> :> Native(<<"*">>)) @@
       (<<"p", "r", "i", "n", "t">> :> Native(<<"p", "r", "i", "n", "t">>))

InitialFrames(L) == <<ObjectPrototypeFrame, [parent |-> ObjectPrototype, b |-> GlobalBindings(L)]>>

\* the nearest object of the prototype chain starting at f that owns key (0: none)
RECURSIVE Owner(_, _, _)
Owner(fr, f, key) ==
  IF f = 0 THEN 0
  ELSE IF key \in DOMAIN fr[f].b THEN f
  ELSE Owner(fr, fr[f].parent, key)

\* key in object
HasProperty(fr, f, key) == Owner(fr, f, key) # 0

\* object[key]; the __proto__ getter answers the receiver's prototype
GetProperty(fr, f, key) ==
  LET o == Owner(fr, f, key)
  IN IF o = 0 THEN Undef
     ELSE IF fr[o].b[key] = Accessor
          THEN (IF fr[f].parent = 0 THEN Null ELSE Obj(fr[f].parent))
          ELSE fr[o].b[key]

\* is frame g on the prototype chain of f (f itself included)
RECURSIVE OnChain(_, _, _)
OnChain(fr, f, g) ==
  IF f = 0 THEN FALSE
  ELSE IF f = g THEN TRUE
  ELSE OnChain(fr, fr[f].parent, g)

\* object[key] = value: [frames, err].  An inherited data property is shadowed
\* by a new own property; the inherited __proto__ setter is called instead,
\* which changes the receiver's prototype for an object or null and ignores
\* every other value.
PutProperty(fr, f, key, v) ==
  LET o == Owner(fr, f, key)
  IN IF o # 0 /\ fr[o].b[key] = Accessor
     THEN CASE v.t = "null" ->
                 IF f = ObjectPrototype THEN [frames |-> fr, err |-> ""]
                 ELSE [frames |-> [fr EXCEPT ![f].parent = 0], err |-> ""]
            [] v.t = "obj" ->
                 IF fr[f].parent = v.env THEN [frames |-> fr, err |-> ""]
                 ELSE IF f = ObjectPrototype \/ OnChain(fr, v.env, f)
                      THEN [frames |-> fr, err |-> "TypeError"]
                      ELSE [frames |-> [fr EXCEPT ![f].parent = v.env], err |-> ""]
            [] v.t \in {"arr", "native"} -> [frames |-> fr, err |-> "Unmodelled"]
            [] OTHER -> [frames |-> fr, err |-> ""]
     ELSE [frames |-> [fr EXCEPT ![f].b =
                          [k \in DOMAIN fr[f].b \cup {key} |-> IF k = key THEN v ELSE fr[f].b[k]]],
           err |-> ""]

\* ------------------------------------------------- the evaluator's state
\* st: the heap, the trace, "ok" or the error thrown, and the value returned
Ret(st, v) == [st EXCEPT !.val = v]
Throw(st, err) == [st EXCEPT !.status = err, !.val = Undef]
Log(st, ev) == [st EXCEPT !.trace = Append(st.trace, ev)]

\* ------------------------------------------------- environment operations
\* extendEnvironment: [frames, env, err]
RECURSIVE BindParameters(_, _, _, _, _)
BindParameters(fr, f, variables, values, index) ==
  IF index = 0 THEN [frames |-> fr, env |-> f, err |-> ""]
  ELSE LET put == PutProperty(fr, f, ToStr(variables[index]), values[index])
       IN IF put.err # "" THEN [frames |-> put.frames, env |-> f, err |-> put.err]
          ELSE BindParameters(put.frames, f, variables, values, index - 1)

\* mutant: only missing arguments are an error, surplus ones are dropped
extendEnvironmentLoose(variables, values, parentEnvironment, fr) ==
  IF Len(variables) > Len(values)
  THEN [frames |-> fr, env |-> 0, err |-> "ArityError"]
  ELSE BindParameters(Append(fr, [parent |-> parentEnvironment, b |-> <<>>]),
                      Len(fr) + 1, variables, values, Len(variables))

extendEnvironment(variables, values, parentEnvironment, fr) ==
  IF Len(variables) # Len(values)
  THEN [frames |-> fr, env |-> 0, err |-> "ArityError"]
  ELSE BindParameters(Append(fr, [parent |-> parentEnvironment, b |-> <<>>]),
                      Len(fr) + 1, variables, values, Len(variables))

lookupVariableValue(variable, env, st) ==
  IF HasProperty(st.frames, env, ToStr(variable))
  THEN Ret(st, GetProperty(st.frames, env, ToStr(variable)))
  ELSE Throw(st, "ReferenceError")

defineVariable(variable, value, env, st) ==
  LET put == PutProperty(st.frames, env, ToStr(variable), value)
  IN IF put.err # "" THEN Throw([st EXCEPT !.frames = put.frames], put.err)
     ELSE Ret([st EXCEPT !.frames = put.frames], value)

\* environment.hasOwnProperty(variable): the method is itself looked up on
\* the environment object: "ok" with the answer, or the error of the call
HasOwnPropertyCall(fr, f, key) ==
  LET m == GetProperty(fr, f, HasOwnPropertyKey)
  IN IF m = Native(HasOwnPropertyKey) THEN [err |-> "", own |-> key \in DOMAIN fr[f].b]
     ELSE IF m.t = "native" THEN [err |-> "Unmodelled", own |-> FALSE]
     ELSE [err |-> "TypeError", own |-> FALSE]

\* the do-while loop of setVariableValue: the frame to write (0: the chain
\* ended), or the error of the hasOwnProperty call
RECURSIVE FindOwningFrame(_, _, _)
FindOwningFrame(fr, f, key) ==
  LET h == HasOwnPropertyCall(fr, f, key)
  IN IF h.err # "" THEN [err |-> h.err, env |-> f]
     ELSE IF h.own THEN [err |-> "", env |-> f]
     ELSE IF fr[f].parent = 0 THEN [err |-> "", env |-> 0]
     ELSE FindOwningFrame(fr, fr[f].parent, key)

\* mutant: the assignment writes the frame it is evaluated in, shadowing the
\* binding of the frame that owns the name
setVariableValueShadowing(variable, value, env, st) ==
  IF ~HasProperty(st.frames, env, ToStr(variable)) THEN Throw(st, "ReferenceError")
  ELSE defineVariable(variable, value, env, st)

setVariableValue(variable, value, env, st) ==
  IF ~HasProperty(st.frames, env, ToStr(variable)) THEN Throw(st, "ReferenceError")
  ELSE LET found == FindOwningFrame(st.frames, env, ToStr(variable))
       IN IF found.err # "" THEN Throw(st, found.err)
          ELSE IF found.env = 0 THEN Throw(st, "TypeError")
          ELSE defineVariable(variable, value, found.env, st)

\* ------------------------------------------------------ native functions
StringLike(v) == v.t \in {"str", "arr", "native", "obj"}

JsAdd(x, y) ==
  IF StringLike(x) \/ StringLike(y) THEN Str(ToStr(x) \o ToStr(y))
  ELSE IF ToNum(x).t = "nan" \/ ToNum(y).t = "nan" THEN NaN
  ELSE Num(ToNum(x).n + ToNum(y).n)

JsSub(x, y) ==
  IF ToNum(x).t = "nan" \/ ToNum(y).t = "nan" THEN NaN
  ELSE Num(ToNum(x).n - ToNum(y).n)

JsMul(x, y) ==
  IF ToNum(x).t = "nan" \/ ToNum(y).t = "nan" THEN NaN
  ELSE Num(ToNum(x).n * ToNum(y).n)

\* [].reduce.call(arguments, f) without an initial value (args non-empty)
RECURSIVE Reduce(_, _, _)
Reduce(op, acc, rest) ==
  IF rest = <<>> THEN acc
  ELSE Reduce(op,
              CASE op = "+" -> JsAdd(acc, rest[1])
                [] op = "-" -> JsSub(acc, rest[1])
                [] op = "*" -> JsMul(acc, rest[1]),
              Tail(rest))

Arg(args, i) == IF i <= Len(args) THEN args[i] ELSE Undef

\* a === b
StrictEquals(x, y) ==
  IF x.t # y.t THEN FALSE
  ELSE CASE x.t = "num" -> x.n = y.n
         [] x.t = "nan" -> FALSE
         [] OTHER -> x = y

applyBuiltInFunction(procedure, args, st) ==
  CASE procedure.s \in {<<"+">>, <<"*">>} ->
         IF args = <<>> THEN Throw(st, "TypeError")
         ELSE Ret(st, Reduce(procedure.s[1], args[1], Tail(args)))
    [] procedure.s = <<"-">> ->
         IF args = <<>> THEN Throw(st, "TypeError")
         ELSE IF Len(args) = 1 THEN Ret(st, JsSub(Num(0), args[1]))
         ELSE Ret(st, Reduce("-", args[1], Tail(args)))
    [] procedure.s = <<">">> ->
         IF StringLike(Arg(args, 1)) /\ StringLike(Arg(args, 2)) THEN Throw(st, "Unmodelled")
         ELSE Ret(st, Bool(/\ ToNum(Arg(args, 1)).t = "num"
                           /\ ToNum(Arg(args, 2)).t = "num"
                           /\ ToNum(Arg(args, 1)).n > ToNum(Arg(args, 2)).n))
    [] procedure.s = <<"=">> ->
         IF Arg(args, 1).t = "arr" /\ Arg(args, 2).t = "arr" THEN Throw(st, "Unmodelled")
         ELSE Ret(st, Bool(StrictEquals(Arg(args, 1), Arg(args, 2))))
    [] procedure.s = <<"n", "u", "l", "l", "?">> -> Ret(st, Bool(Arg(args, 1).t = "null"))
    [] procedure.s = <<"p", "r", "i", "n", "t">> ->
         Ret(Log(st, <<"print", Arr(args), 0>>), Undef)
    [] procedure.s = HasOwnPropertyKey -> Throw(st, "TypeError")
    [] OTHER -> Throw(st, "Unmodelled")

\* ------------------------------------------------------ syntax helpers
\* mutant: the function object saves the global environment, as a lesson-5
\* function behaves, instead of the environment it is created in
makeFunctionGlobal(parameters, body, parentEnvironment) ==
  [Arr(<<Str(FunctionTag), parameters, body>>) EXCEPT !.env = TheGlobalEnvironment]

makeFunction(parameters, body, parentEnvironment) ==
  [Arr(<<Str(FunctionTag), parameters, body>>) EXCEPT !.env = parentEnvironment]

makeLambda(parameters, body) == Arr(<<Str(LambdaTag), parameters>> \o body.a)
makeBegin(expressions) == Arr(<<Str(BeginTag), expressions>>)
makeIf(predicate, consequent, alternative) == Arr(<<Str(IfTag), predicate, consequent, alternative>>)

getLambdaParameters(e) == Index(e, 1)
\* mutant: the parameter list is taken for the first expression of the body
getLambdaBodyFromParameters(e) == Slice(e, 1)
getLambdaBody(e) == Slice(e, 2)
getBlockActions(e) == Slice(e, 1)
getFunctionParameters(p) == Index(p, 1)
getFunctionBody(p) == Index(p, 2)
getOperator(e) == Index(e, 0)
getArguments(e) == Slice(e, 1)
getAssignmentName(e) == Index(e, 1)
getAssignmentValue(e) == Index(e, 2)

getDefinitionName(e, L) ==
  IF isVariable(Index(e, 1), L) THEN Index(e, 1) ELSE Index(Index(e, 1), 0)

\* lessons 6 and 7: a function definition becomes a lambda;
\* lesson 5: it becomes the function object itself (no environment)
getDefinitionValue(e, L) ==
  IF isVariable(Index(e, 1), L) THEN Index(e, 2)
  ELSE IF L = 5 THEN makeFunction(Slice(Index(e, 1), 1), Slice(e, 2), 0)
  ELSE makeLambda(Slice(Index(e, 1), 1), Slice(e, 2))

getIfPredicate(e) == Index(e, 1)
getIfConsequent(e) == Index(e, 2)
\* ifExpression[3] || false
getIfAlternative(e) == IF Truthy(Index(e, 3)) THEN Index(e, 3) ELSE Bool(FALSE)

\* --------------------------------------------------- cond transformation
getCondClauses(e) == Slice(e, 1)
getCondPredicate(clause) == Index(clause, 0)
getCondActions(clause) == Slice(clause, 1)
isCondElseClause(clause) == LooseEqualsString(getCondPredicate(clause), ElseTag)

sequenceExpression(expressions) ==
  IF Len(expressions.a) = 0 THEN Null
  ELSE IF Len(expressions.a) = 1 THEN expressions.a[1]
  ELSE makeBegin(expressions)

\* [err, v]: the nested "if", or the error thrown while expanding
RECURSIVE expandCondClauses(_)
\* mutant: a clause counts as the else clause only when it is the last one, so
\* a misplaced else is met as a variable when its turn to be tested comes
expandCondClausesLazy(condClauses) ==
  IF Len(condClauses.a) = 0 THEN [err |-> "", v |-> Bool(FALSE)]
  ELSE LET first == condClauses.a[1]
           rest == Slice(condClauses, 1)
       IN IF first.t # "arr" THEN [err |-> "Unmodelled", v |-> Undef]
          ELSE IF isCondElseClause(first) /\ Len(rest.a) = 0
          THEN [err |-> "", v |-> sequenceExpression(getCondActions(first))]
          ELSE LET alt == expandCondClauses(rest)
               IN IF alt.err # "" THEN alt
                  ELSE [err |-> "",
                        v |-> makeIf(getCondPredicate(first),
                                     sequenceExpression(getCondActions(first)),
                                     alt.v)]

expandCondClauses(condClauses) ==
  IF Len(condClauses.a) = 0 THEN [err |-> "", v |-> Bool(FALSE)]
  ELSE LET first == condClauses.a[1]
           rest == Slice(condClauses, 1)
       IN IF first.t # "arr" THEN [err |-> "Unmodelled", v |-> Undef]
          ELSE IF isCondElseClause(first)
          THEN (IF Len(rest.a) # 0 THEN [err |-> "ElseError", v |-> Undef]
                ELSE [err |-> "", v |-> sequenceExpression(getCondActions(first))])
          ELSE LET alt == expandCondClauses(rest)
               IN IF alt.err # "" THEN alt
                  ELSE [err |-> "",
                        v |-> makeIf(getCondPredicate(first),
                                     sequenceExpression(getCondActions(first)),
                                     alt.v)]

condToIf(e) == expandCondClauses(getCondClauses(e))

\* -------------------------------------------------------- evaluate / apply
\* evaluate(e, envArg, st, L, fuel): envArg = 0 is an omitted environment;
\* fuel is the host stack left (exhausting it is the host's RangeError).
RECURSIVE evaluate(_, _, _, _, _)
RECURSIVE evalSequenceFrom(_, _, _, _, _, _)
RECURSIVE getArgumentValues(_, _, _, _, _, _)
RECURSIVE apply(_, _, _, _, _)

\* mutant: a failing expression of a sequence is skipped and the next one runs
evalSequenceFromRecovering(expressions, i, env, st, L, fuel) ==
  IF i > Len(expressions) THEN st
  ELSE LET s1 == evaluate(expressions[i], env, st, L, fuel)
       IN evalSequenceFrom(expressions, i + 1, env, [s1 EXCEPT !.status = "ok"], L, fuel)

\* expressions.forEach(...): st.val is returnResult
evalSequenceFrom(expressions, i, env, st, L, fuel) ==
  IF i > Len(expressions) THEN st
  ELSE LET s1 == evaluate(expressions[i], env, st, L, fuel)
       IN IF s1.status # "ok" THEN s1
          ELSE evalSequenceFrom(expressions, i + 1, env, s1, L, fuel)

\* mutant: the sequence runs in a frame of its own, a child of env
evalSequenceScoped(expressions, env, st, L, fuel) ==
  IF expressions.t # "arr" THEN Throw(st, "TypeError")
  ELSE LET ext == extendEnvironment(<<>>, <<>>, env, st.frames)
       IN evalSequenceFrom(expressions.a, 1, ext.env,
                           Ret([st EXCEPT !.frames = ext.frames], Undef), L, fuel)

evalSequence(expressions, env, st, L, fuel) ==
  IF expressions.t # "arr" THEN Throw(st, "TypeError")
  ELSE evalSequenceFrom(expressions.a, 1, env, Ret(st, Undef), L, fuel)

\* mutant: the operands are evaluated from the last to the first
getArgumentValuesBackwards(expressions, i, env, acc, L, fuel) ==
  IF i > Len(expressions) THEN acc
  ELSE LET s1 == evaluate(expressions[Len(expressions) + 1 - i], env, acc.st, L, fuel)
       IN IF s1.status # "ok" THEN [st |-> s1, vals |-> acc.vals]
          ELSE getArgumentValues(expressions, i + 1, env,
                                 [st |-> s1, vals |-> <<s1.val>> \o acc.vals], L, fuel)

\* expressions.map(...): [st, vals]
getArgumentValues(expressions, i, env, acc, L, fuel) ==
  IF i > Len(expressions) THEN acc
  ELSE LET s1 == evaluate(expressions[i], env, acc.st, L, fuel)
       IN IF s1.status # "ok" THEN [st |-> s1, vals |-> acc.vals]
          ELSE getArgumentValues(expressions, i + 1, env,
                                 [st |-> s1, vals |-> Append(acc.vals, s1.val)], L, fuel)

\* mutant: the activation extends the most recent frame, the caller's when
\* the call is made from a procedure body
applyUserDefinedFunctionDynamic(procedure, args, st, L, fuel) ==
  LET parameters == getFunctionParameters(procedure)
      parent == IF Len(st.frames) > TheGlobalEnvironment
                THEN Len(st.frames) ELSE TheGlobalEnvironment
  IN IF parameters.t \in {"null", "undef"} THEN Throw(st, "TypeError")
     ELSE IF parameters.t # "arr" THEN Throw(st, "Unmodelled")
     ELSE LET ext == extendEnvironment(parameters.a, args, parent, st.frames)
          IN IF ext.err # "" THEN Throw(st, ext.err)
             ELSE evalSequence(getFunctionBody(procedure), ext.env,
                               [st EXCEPT !.frames = ext.frames], L, fuel)

\* lesson 5 extends the global environment, lessons 6 and 7 the saved one
applyUserDefinedFunction(procedure, args, st, L, fuel) ==
  LET parameters == getFunctionParameters(procedure)
      parent == IF L = 5 THEN TheGlobalEnvironment ELSE procedure.env
  IN IF parameters.t \in {"null", "undef"} THEN Throw(st, "TypeError")
     ELSE IF parameters.t # "arr" \/ parent = 0 THEN Throw(st, "Unmodelled")
     ELSE LET ext == extendEnvironment(parameters.a, args, parent, st.frames)
          IN IF ext.err # "" THEN Throw(st, ext.err)
             ELSE evalSequence(getFunctionBody(procedure), ext.env,
                               [st EXCEPT !.frames = ext.frames], L, fuel)

apply(procedure, args, st, L, fuel) ==
  IF isBuiltInFunction(procedure) THEN applyBuiltInFunction(procedure, args, st)
  ELSE IF isTaggedListThrows(procedure) THEN Throw(st, "TypeError")
  ELSE IF isUserDefinedFunction(procedure)
       THEN applyUserDefinedFunction(procedure, args, st, L, fuel)
  ELSE Ret(st, Undef)

evalDefinition(e, env, st, L, fuel) ==
  IF ~isVariable(Index(e, 1), L) /\ Index(e, 1).t # "arr" THEN Throw(st, "Unmodelled")
  ELSE IF L = 5
  THEN LET definitionValue == getDefinitionValue(e, L)
       IN IF isTaggedListThrows(definitionValue) THEN Throw(st, "TypeError")
          ELSE IF isUserDefinedFunction(definitionValue)
          THEN defineVariable(getDefinitionName(e, L), definitionValue, env, st)
          ELSE LET s1 == evaluate(definitionValue, 0, st, L, fuel)
               IN IF s1.status # "ok" THEN s1
                  ELSE defineVariable(getDefinitionName(e, L), s1.val, env, s1)
  ELSE LET s1 == evaluate(getDefinitionValue(e, L), env, st, L, fuel)
       IN IF s1.status # "ok" THEN s1
          ELSE defineVariable(getDefinitionName(e, L), s1.val, env, s1)

evalAssignment(e, env, st, L, fuel) ==
  LET s1 == evaluate(getAssignmentValue(e), env, st, L, fuel)
  IN IF s1.status # "ok" THEN s1
     ELSE setVariableValue(getAssignmentName(e), s1.val, env, s1)

evalIf(e, env, st, L, fuel) ==
  LET s1 == evaluate(getIfPredicate(e), env, st, L, fuel)
  IN IF s1.status # "ok" THEN s1
     ELSE IF Truthy(s1.val) THEN evaluate(getIfConsequent(e), env, s1, L, fuel)
     ELSE evaluate(getIfAlternative(e), env, s1, L, fuel)

evalApplication(e, env, st, L, fuel) ==
  LET s1 == evaluate(getOperator(e), env, st, L, fuel)
  IN IF s1.status # "ok" THEN s1
     ELSE LET av == getArgumentValues(getArguments(e).a, 1, env,
                                      [st |-> s1, vals |-> <<>>], L, fuel)
          IN IF av.st.status # "ok" THEN av.st
             ELSE apply(s1.val, av.vals, av.st, L, fuel)

evaluate(e, envArg, st, L, fuel) ==
  IF fuel = 0 THEN Throw(st, "RangeError")
  ELSE LET env == IF envArg = 0 THEN TheGlobalEnvironment ELSE envArg
           s0 == Log(st, <<"eval", e, env>>)
       IN IF isSelfEvaluating(e) THEN Ret(s0, e)
          ELSE IF isVariable(e, L) THEN lookupVariableValue(e, env, s0)
          ELSE IF isDefinition(e) THEN evalDefinition(e, env, s0, L, fuel - 1)
          ELSE IF isAssignment(e) THEN evalAssignment(e, env, s0, L, fuel - 1)
          ELSE IF L >= 6 /\ isLambda(e)
               THEN Ret(s0, makeFunction(getLambdaParameters(e), getLambdaBody(e), env))
          ELSE IF L >= 6 /\ isBlock(e)
               THEN evalSequence(getBlockActions(e), env, s0, L, fuel - 1)
          ELSE IF L = 7 /\ isIf(e) THEN evalIf(e, env, s0, L, fuel - 1)
          ELSE IF L = 7 /\ isCond(e)
               THEN LET x == condToIf(e)
                    IN IF x.err # "" THEN Throw(s0, x.err)
                       ELSE evaluate(x.v, env, s0, L, fuel - 1)
          ELSE IF isApplication(e) THEN evalApplication(e, env, s0, L, fuel - 1)
          ELSE Ret(s0, Undef)

\* ------------------------------------------------------------ the machine
Lessons == {5, 6, 7}

InitFor(Ls) ==
  /\ lesson \in Ls
  /\ frames = InitialFrames(lesson)
  /\ expression = Undef
  /\ environment = 0
  /\ result = Undef
  /\ status = "ok"
  /\ trace = <<>>
  /\ before = frames
  /\ calls = 0

\* the environments a caller can pass: none (0), or a frame of the heap
EnvironmentArguments == {0} \cup (TheGlobalEnvironment + 1 .. Len(frames))

\* one top-level call evaluate(p, E)
Evaluate(p, E) ==
  /\ calls < MaxCalls
  /\ LET r == evaluate(p, E, [frames |-> frames, trace |-> <<>>, status |-> "ok", val |-> Undef],
                       lesson, MaxDepth)
     IN /\ frames' = r.frames
        /\ result' = r.val
        /\ status' = r.status
        /\ trace' = r.trace
  /\ expression' = p
  /\ environment' = E
  /\ before' = frames
  /\ calls' = calls + 1
  /\ UNCHANGED lesson

\* ---------------------------------------------- expressions of the programs
\* what parse(...) of note-2 returns for the s-expression in each comment
Sym(cs) == Str(cs)
SymX == Sym(<<"x">>)
SymY == Sym(<<"y">>)
SymZ == Sym(<<"z">>)
SymF == Sym(<<"f">>)
SymG == Sym(<<"g">>)
SymN == Sym(<<"n">>)
SymPlus == Sym(<<"+">>)
SymPrint == Sym(<<"p", "r", "i", "n", "t">>)
QuoteA == Sym(<<"'", "a">>)
QuoteB == Sym(<<"'", "b">>)
QuoteC == Sym(<<"'", "c">>)
Define(name, value) == Arr(<<Sym(DefineTag), name, value>>)
Assign(name, value) == Arr(<<Sym(SetTag), name, value>>)
Lambda1(parameters, body) == Arr(<<Sym(LambdaTag), Arr(parameters), body>>)
Call0(f) == Arr(<<f>>)
Call1(f, x) == Arr(<<f, x>>)
Call2(f, x, y) == Arr(<<f, x, y>>)

\* the state handed to a top-level call
Fresh(fr) == [frames |-> fr, trace |-> <<>>, status |-> "ok", val |-> Undef]
\* the evaluate calls of the trace
EvalEvents(tr) == {i \in 1..Len(tr) : tr[i][1] = "eval"}
\* the frames on the chain of f, nearest first, Object.prototype left out
RECURSIVE Chain(_, _)
Chain(fr, f) ==
  IF f = 0 \/ f = ObjectPrototype THEN <<>> ELSE <<f>> \o Chain(fr, fr[f].parent)
EnvOf(E) == IF E = 0 THEN TheGlobalEnvironment ELSE E

\* ================================================================ claims
\* ---- definitions and lookups (C1, C9) ----
\* (define x 1) (define x (+ x 1)) (define y 'a) (define __proto__ 5) (define 7 1)
\* (define (f n) (define y n) y) (f 2) x y __proto__ constructor z
DefineSuite ==
  { Define(SymX, Num(1)),
    Define(SymX, Call2(SymPlus, SymX, Num(1))),
    Define(SymY, QuoteA),
    Define(Sym(ProtoKey), Num(5)),
    Define(Num(7), Num(1)),
    Arr(<<Sym(DefineTag), Arr(<<SymF, SymN>>), Define(SymY, SymN), SymY>>),
    Call1(SymF, Num(2)),
    SymX, SymY, SymZ, Sym(ProtoKey), Sym(ConstructorKey) }

InitDefine == InitFor(Lessons)
NextDefine == \E p \in DefineSuite, E \in EnvironmentArguments : Evaluate(p, E)
SpecDefine == InitDefine /\ [][NextDefine]_vars

\* the last call was a successful (define name v) of the variable form
DefinedVariable ==
  /\ status = "ok"
  /\ expression.t = "arr"
  /\ isDefinition(expression)
  /\ isVariable(Index(expression, 1), lesson)

\* C1: after evaluate(["define", name, v], E) has succeeded, evaluate(name, E)
\* returns the value v evaluated to, for every name of the variable grammar.
C1_DefineLookupRoundTrip ==
  DefinedVariable =>
    LET r == evaluate(Index(expression, 1), environment, Fresh(frames), lesson, MaxDepth)
    IN r.status = "ok" /\ r.val = result

\* C1 fails on the code: (define __proto__ 5) calls the setter inherited from
\* Object.prototype, which binds nothing, and (define 7 1) binds a name that
\* evaluates as a literal.
C1_ProtoDefined ==
  DefinedVariable /\ Index(expression, 1) = Sym(ProtoKey) /\ result = Num(5)

\* the frames of the chain of the last call's environment, as the call found
\* them, that own key (Object.prototype is no frame of the program)
OwnersBefore(key) ==
  {f \in {Chain(before, EnvOf(environment))[i] : i \in 1..Len(Chain(before, EnvOf(environment)))} :
     key \in DOMAIN before[f].b}

\* the last call was evaluate(name, E) of an identifier
LookedUp ==
  /\ expression.t = "str"
  /\ ~isSelfEvaluating(expression)
  /\ isVariable(expression, lesson)

\* C9: evaluate(name, E) of an identifier that is neither registered in the
\* global environment nor defined in any frame of E's chain throws the
\* unbound-name error.
C9_UnboundLookupFails ==
  (LookedUp /\ OwnersBefore(expression.s) = {}) => status = "ReferenceError"

\* C9 fails on the code: constructor is found on Object.prototype.
C9_InheritedFound ==
  LookedUp /\ OwnersBefore(expression.s) = {} /\ status = "ok"

\* ---- assignments (C2, C3) ----
\* (define x 1) (define (f x) x) (f 5) (define hasOwnProperty 1)
\* (set! x 2) (set! x (+ x 1)) (set! z 1) (set! constructor 5)
AssignSuite ==
  { Define(SymX, Num(1)),
    Arr(<<Sym(DefineTag), Arr(<<SymF, SymX>>), SymX>>),
    Call1(SymF, Num(5)),
    Define(Sym(HasOwnPropertyKey), Num(1)),
    Assign(SymX, Num(2)),
    Assign(SymX, Call2(SymPlus, SymX, Num(1))),
    Assign(SymZ, Num(1)),
    Assign(Sym(ConstructorKey), Num(5)) }

InitAssign == InitFor(Lessons)
NextAssign == \E p \in AssignSuite, E \in EnvironmentArguments : Evaluate(p, E)
SpecAssign == InitAssign /\ [][NextAssign]_vars

\* the last call was evaluate(["set!", name, v], E)
Assigned ==
  /\ expression.t = "arr"
  /\ isAssignment(expression)
  /\ getAssignmentName(expression).t = "str"

AssignedKey == getAssignmentName(expression).s

\* C2: (set! name v) of a name no frame of the chain owns throws the
\* unbound-name error, and no frame gains a binding of the name.
C2_AssignmentNeverCreatesBindings ==
  (Assigned /\ OwnersBefore(AssignedKey) = {}) =>
    /\ status = "ReferenceError"
    /\ \A f \in 1..Len(frames) :
         AssignedKey \in DOMAIN frames[f].b => (f <= Len(before) /\ AssignedKey \in DOMAIN before[f].b)

\* C2 fails on the code: (set! constructor 5) finds constructor on
\* Object.prototype and overwrites it there.
C2_InheritedAssigned ==
  Assigned /\ OwnersBefore(AssignedKey) = {} /\ status = "ok"

\* the nearest frame of the chain that owned the assigned name
NearestOwnerBefore ==
  LET c == Chain(before, EnvOf(environment))
  IN c[CHOOSE i \in 1..Len(c) :
         /\ AssignedKey \in DOMAIN before[c[i]].b
         /\ \A j \in 1..(i - 1) : AssignedKey \notin DOMAIN before[c[j]].b]

\* C3: (set! name v) of a name some frame of the chain owns overwrites the
\* binding of the nearest owning frame and changes nothing else.
C3_AssignmentUpdatesNearestOwner ==
  (Assigned /\ OwnersBefore(AssignedKey) # {}) =>
    /\ status = "ok"
    /\ frames = [before EXCEPT ![NearestOwnerBefore].b[AssignedKey] = result]

\* C3 fails on the code: once a frame binds hasOwnProperty to a value that is
\* no function, environment.hasOwnProperty(variable) throws a TypeError.
C3_OwnedButThrown ==
  Assigned /\ OwnersBefore(AssignedKey) # {} /\ status = "TypeError"

\* v is a compound procedure: ["function", parameters, body]
IsCompound(v) == v.t = "arr" /\ isTaggedList(FunctionTag, v)

\* ---- closures (C4) ----
SymC == Sym(<<"c">>)
SymD == Sym(<<"d">>)
SymMk == Sym(<<"m", "k">>)
\* (define (mk n) (define c 10)
\*    (lambda (d) (set! n (+ n d)) (set! c (+ c d)) (+ n c)))
DefineMk ==
  Arr(<<Sym(DefineTag), Arr(<<SymMk, SymN>>),
        Define(SymC, Num(10)),
        Arr(<<Sym(LambdaTag), Arr(<<SymD>>),
              Assign(SymN, Call2(SymPlus, SymN, SymD)),
              Assign(SymC, Call2(SymPlus, SymC, SymD)),
              Call2(SymPlus, SymN, SymC)>>)>>)
\* (define g (mk 1))
DefineG == Define(SymG, Call1(SymMk, Num(1)))

ClosureSuite ==
  { DefineMk, DefineG, Arr(<<Sym(BeginTag), DefineMk, DefineG>>),
    Call1(SymG, Num(0)), Call1(SymG, Num(1)), Call1(SymG, Num(2)), SymN, SymC }

InitClosure == InitFor({6, 7})
NextClosure == \E p \in ClosureSuite, E \in EnvironmentArguments : Evaluate(p, E)
SpecClosure == InitClosure /\ [][NextClosure]_vars

\* the last call was (g d), g being the procedure an earlier call of mk returned
ClosureInvoked ==
  /\ expression.t = "arr"
  /\ Len(expression.a) = 2
  /\ expression.a[1] = SymG
  /\ expression.a[2].t = "num"
  /\ HasProperty(before, EnvOf(environment), SymG.s)
  /\ IsCompound(GetProperty(before, EnvOf(environment), SymG.s))

\* the frame of the finished call (mk 1)
ClosureFrame == GetProperty(before, EnvOf(environment), SymG.s).env

\* C4: every invocation of the returned procedure reads the parameter n and
\* the local c of the finished call's frame as the previous invocation left
\* them, and its writes stay in that frame.
C4_ClosureKeepsDefiningFrame ==
  ClosureInvoked =>
    LET F == ClosureFrame
        d == expression.a[2].n
    IN /\ status = "ok"
       /\ F > TheGlobalEnvironment
       /\ frames[F].b[SymN.s] = Num(before[F].b[SymN.s].n + d)
       /\ frames[F].b[SymC.s] = Num(before[F].b[SymC.s].n + d)
       /\ result = Num(before[F].b[SymN.s].n + before[F].b[SymC.s].n + 2 * d)

\* a later invocation: an earlier one has already written the frame
C4_SecondInvocation ==
  /\ ClosureInvoked
  /\ status = "ok"
  /\ before[ClosureFrame].b[SymN.s] # Num(1)
  /\ expression.a[2].n > 0

\* ---- lexical scoping (C5) ----
SymCaller == Sym(<<"c", "a", "l", "l", "e", "r">>)
SymGetx == Sym(<<"g", "e", "t", "x">>)
SymMkget == Sym(<<"m", "k", "g", "e", "t">>)
SymH == Sym(<<"h">>)
\* (define (getx y) x)
DefineGetx == Arr(<<Sym(DefineTag), Arr(<<SymGetx, SymY>>), SymX>>)
\* (define (caller x) (getx 0))
DefineCaller == Arr(<<Sym(DefineTag), Arr(<<SymCaller, SymX>>), Call1(SymGetx, Num(0))>>)
\* (define (mkget x) (lambda (y) x))
DefineMkget == Arr(<<Sym(DefineTag), Arr(<<SymMkget, SymX>>), Lambda1(<<SymY>>, SymX)>>)
\* (define h (mkget 5))
DefineH == Define(SymH, Call1(SymMkget, Num(5)))

ScopeSuite ==
  { Define(SymX, Num(1)), DefineGetx, DefineCaller,
    Arr(<<Sym(BeginTag), Define(SymX, Num(1)), DefineGetx, DefineCaller, DefineMkget, DefineH>>),
    Call1(SymCaller, Num(9)), Call1(SymGetx, Num(0)), Call1(SymH, Num(0)), SymX }

InitScope == InitFor({6, 7})
NextScope == \E p \in ScopeSuite, E \in EnvironmentArguments : Evaluate(p, E)
SpecScope == InitScope /\ [][NextScope]_vars

\* the procedure the operator of the last call named, as the call found it
Applied == GetProperty(before, EnvOf(environment), expression.a[1].s)

\* the last call applied getx, h or caller to a number, x being bound where the
\* procedure was created
ScopedCall ==
  /\ expression.t = "arr"
  /\ Len(expression.a) = 2
  /\ expression.a[1] \in {SymGetx, SymH, SymCaller}
  /\ IsCompound(Applied)
  /\ HasProperty(before, Applied.env, SymX.s)
  /\ expression.a[1] = SymCaller =>
       /\ IsCompound(GetProperty(before, Applied.env, SymGetx.s))
       /\ HasProperty(before, GetProperty(before, Applied.env, SymGetx.s).env, SymX.s)

\* the value of the free variable x of the body that ran, read through the
\* environment saved in the procedure
FreeVariableValue ==
  IF expression.a[1] = SymCaller
  THEN GetProperty(before, GetProperty(before, Applied.env, SymGetx.s).env, SymX.s)
  ELSE GetProperty(before, Applied.env, SymX.s)

\* C5: the activation frame of an applied compound procedure has the
\* environment saved at its creation as parent, and the free variable x of its
\* body has the value bound there, whatever the call site binds.
C5_LexicalScoping ==
  ScopedCall =>
    /\ status = "ok"
    /\ Len(frames) > Len(before)
    /\ frames[Len(before) + 1].parent = Applied.env
    /\ expression.a[1] = SymCaller =>
         /\ Len(frames) = Len(before) + 2
         /\ frames[Len(before) + 2].parent = GetProperty(before, Applied.env, SymGetx.s).env
    /\ result = FreeVariableValue

\* getx is called from the frame of (caller 9), where x is 9, and answers the
\* global x
C5_CallSiteBindsOtherX ==
  /\ ScopedCall
  /\ expression = Call1(SymCaller, Num(9))
  /\ status = "ok"
  /\ result = Num(1)
  /\ frames[Len(before) + 1].b[SymX.s] = Num(9)

\* ---- arity (C6) ----
\* (define (f a b) (define z (+ a b)) z)
DefineF2 ==
  Arr(<<Sym(DefineTag), Arr(<<SymF, Sym(<<"a">>), Sym(<<"b">>)>>),
        Define(SymZ, Call2(SymPlus, Sym(<<"a">>), Sym(<<"b">>))), SymZ>>)
\* (define g (lambda () 1))
DefineG0 == Define(SymG, Lambda1(<<>>, Num(1)))

AritySuite ==
  { DefineF2, DefineG0,
    Call1(SymF, Num(1)), Call2(SymF, Num(1), Num(2)),
    Arr(<<SymF, Num(1), Num(2), Num(3)>>),
    Call1(SymG, Num(1)), Call2(SymG, Num(1), Num(2)), SymZ }

InitArity == InitFor(Lessons)
NextArity == \E p \in AritySuite, E \in EnvironmentArguments : Evaluate(p, E)
SpecArity == InitArity /\ [][NextArity]_vars

\* the last call applied f or g, bound to a compound procedure, to numbers
ArityCall ==
  /\ expression.t = "arr"
  /\ Len(expression.a) >= 2
  /\ expression.a[1] \in {SymF, SymG}
  /\ IsCompound(Applied)
  /\ getFunctionParameters(Applied).t = "arr"

ParameterCount == Len(getFunctionParameters(Applied).a)
ArgumentCount == Len(expression.a) - 1

SymEq == Sym(<<"=">>)
SymElse == Sym(ElseTag)
Cond(clauses) == Arr(<<Sym(CondTag)>> \o clauses)
XIs(k) == Call2(SymEq, SymX, Num(k))
\* (cond ((= x 0) 10) (else 20))
CondSingle == Cond(<<Arr(<<XIs(0), Num(10)>>), Arr(<<SymElse, Num(20)>>)>>)
\* (cond ((= x 0) (define y 1) (+ y 1)) (else 20))
CondDefine ==
  Cond(<<Arr(<<XIs(0), Define(SymY, Num(1)), Call2(SymPlus, SymY, Num(1))>>),
         Arr(<<SymElse, Num(20)>>)>>)
\* (cond ((= x 1) 5) ((= x 0) (print 'a) 0))
CondPrint ==
  Cond(<<Arr(<<XIs(1), Num(5)>>), Arr(<<XIs(0), Call1(SymPrint, QuoteA), Num(0)>>)>>)
\* (cond ((define y 5) 'a) (else 'b) ((= x 1) 'c))
CondElseSecond ==
  Cond(<<Arr(<<Define(SymY, Num(5)), QuoteA>>), Arr(<<SymElse, QuoteB>>),
         Arr(<<XIs(1), QuoteC>>)>>)
\* (cond ((= x 0) (set! x 1)) (else 2) (x 3))
CondElseAfterTrue ==
  Cond(<<Arr(<<XIs(0), Assign(SymX, Num(1))>>), Arr(<<SymElse, Num(2)>>),
         Arr(<<SymX, Num(3)>>)>>)
\* (cond (else 1) (else 2))
CondElseTwice == Cond(<<Arr(<<SymElse, Num(1)>>), Arr(<<SymElse, Num(2)>>)>>)

\* (define (f x) (cond ((= x 0) 0) (else (print x) 1)))
DefineCondF ==
  Arr(<<Sym(DefineTag), Arr(<<SymF, SymX>>),
        Cond(<<Arr(<<XIs(0), Num(0)>>),
               Arr(<<SymElse, Call1(SymPrint, SymX), Num(1)>>)>>)>>)

CondSuite ==
  { Define(SymX, Num(0)), Define(SymX, Num(1)),
    CondSingle, CondDefine, CondPrint,
    CondElseSecond, CondElseAfterTrue, CondElseTwice,
    DefineCondF, Call1(SymF, Num(0)), Call1(SymF, Num(1)), SymX, SymY }

InitCond == InitFor({7})
NextCond == \E p \in CondSuite, E \in EnvironmentArguments : Evaluate(p, E)
SpecCond == InitCond /\ [][NextCond]_vars

\* an else clause of the cond e is followed by another clause
MisplacedElse(e) ==
  \E i \in 2..(Len(e.a) - 1) : e.a[i].t = "arr" /\ Index(e.a[i], 0) = SymElse

CondEvaluated == expression.t = "arr" /\ Index(expression, 0) = Sym(CondTag)

\* the nested if written by hand for the clauses from the i-th on, an action
\* list of several expressions written (begin a1 ... an)
RECURSIVE NestedIf(_, _)
NestedIf(clauses, i) ==
  IF i > Len(clauses) THEN Bool(FALSE)
  ELSE LET actions == SubSeq(clauses[i].a, 2, Len(clauses[i].a))
           body == IF Len(actions) = 1 THEN actions[1]
                   ELSE Arr(<<Sym(BeginTag)>> \o actions)
       IN IF clauses[i].a[1] = SymElse THEN body
          ELSE Arr(<<Sym(IfTag), clauses[i].a[1], body, NestedIf(clauses, i + 1)>>)

HandWritten(e) == NestedIf(SubSeq(e.a, 2, Len(e.a)), 1)

\* C7: evaluating a cond without a misplaced else ends as evaluating the
\* hand-written nested if does: same outcome, same value, same environment.
C7_CondEqualsNestedIf ==
  (CondEvaluated /\ ~MisplacedElse(expression)) =>
    LET r == evaluate(HandWritten(expression), environment, Fresh(before), lesson, MaxDepth)
    IN /\ status = r.status
       /\ result = r.val
       /\ frames = r.frames

\* the clause taken has two actions, and the cond does not end as the nested if
C7_SeveralActionsDiffer ==
  /\ CondEvaluated
  /\ expression = CondDefine
  /\ status = "ok"
  /\ result = Undef
  /\ evaluate(HandWritten(expression), environment, Fresh(before), lesson, MaxDepth).val = Num(2)

\* C8: a cond whose else clause is followed by another clause fails while it is
\* expanded: the only evaluate call is that of the cond itself, so no predicate
\* and no action is evaluated, and the environment is unchanged.
C8_MisplacedElseFailsInExpansion ==
  (CondEvaluated /\ MisplacedElse(expression)) =>
    /\ status = "ElseError"
    /\ frames = before
    /\ Len(trace) = 1

\* the first clause's predicate (= x 0) is true when the cond fails
C8_EarlierPredicateTrue ==
  /\ CondEvaluated
  /\ expression = CondElseAfterTrue
  /\ status = "ElseError"
  /\ GetProperty(frames, EnvOf(environment), SymX.s) = Num(0)

\* ---- applications (C10) ----
\* (define (f n) n)
DefineId == Arr(<<Sym(DefineTag), Arr(<<SymF, SymN>>), SymN>>)

ApplySuite ==
  { Define(SymX, Num(5)), DefineId,
    Call1(Num(5), Num(1)), Call1(SymX, Num(1)), Call1(QuoteA, Num(1)),
    Call1(Call2(SymPlus, Num(1), Num(2)), Num(3)),
    Call1(Call1(SymF, Num(1)), Num(2)),
    Call1(SymF, Num(1)), Call2(SymPlus, SymX, Num(2)), Call1(SymPrint, Num(1)) }

InitApply == InitFor(Lessons)
NextApply == \E p \in ApplySuite, E \in EnvironmentArguments : Evaluate(p, E)
SpecApply == InitApply /\ [][NextApply]_vars

\* the last call evaluated an application of one operand
ApplicationEvaluated ==
  /\ expression.t = "arr"
  /\ Len(expression.a) = 2
  /\ ~isSelfEvaluating(expression)
  /\ ~isVariable(expression, lesson)
  /\ Index(expression, 0) \notin
       {Sym(DefineTag), Sym(SetTag), Sym(LambdaTag), Sym(BeginTag), Sym(IfTag), Sym(CondTag)}

\* what the operator of the last call evaluated to
OperatorValue ==
  evaluate(getOperator(expression), environment, Fresh(before), lesson, MaxDepth)

\* the operator evaluated to a value that is neither built-in nor compound
NotCallable ==
  /\ ApplicationEvaluated
  /\ OperatorValue.status = "ok"
  /\ ~isBuiltInFunction(OperatorValue.val)
  /\ ~IsCompound(OperatorValue.val)

\* C10: an application whose operator evaluates to a value that is neither a
\* built-in nor a compound procedure fails; it returns no value.
C10_NotCallableFails == NotCallable => status # "ok"

\* the number 5 was applied and the call returned
C10_NumberApplied ==
  /\ NotCallable
  /\ OperatorValue.val = Num(5)
  /\ status = "ok"
  /\ result = Undef

\* ---- expressions of no kind (C11) ----
\* the strings "#t", "a.b" and "x y", which are no number, no quoted symbol and
\* no name of the variable grammar
StrTrue == Str(<<"#", "t">>)
StrDotted == Str(<<"a", ".", "b">>)
StrSpaced == Str(<<"x", " ", "y">>)

MalformedSuite ==
  { StrTrue, StrDotted, StrSpaced,
    Define(SymX, StrTrue), Call1(SymPrint, StrDotted), Call2(SymPlus, Num(1), StrSpaced),
    Define(SymX, Num(1)), Define(SymY, QuoteA), SymX, SymY, Num(3),
    Call2(SymPlus, SymX, Num(1)) }

InitMalformed == InitFor(Lessons)
NextMalformed == \E p \in MalformedSuite, E \in EnvironmentArguments : Evaluate(p, E)
SpecMalformed == InitMalformed /\ [][NextMalformed]_vars

\* e is no literal, no variable, no special form and no application
Unclassified(e) ==
  /\ ~isSelfEvaluating(e)
  /\ ~isVariable(e, lesson)
  /\ ~isTaggedListThrows(e)
  /\ ~isDefinition(e)
  /\ ~isAssignment(e)
  /\ ~isLambda(e)
  /\ ~isBlock(e)
  /\ ~isIf(e)
  /\ ~isCond(e)
  /\ ~isApplication(e)

\* C11: evaluate fails on an expression that matches none of its
\* classifications; it never returns normally for one.
C11_MalformedExpressionFails == Unclassified(expression) => status # "ok"

\* evaluate fell off its end on "#t" and returned undefined
C11_UnclassifiedReturned ==
  /\ Unclassified(expression)
  /\ expression = StrTrue
  /\ status = "ok"
  /\ result = Undef

\* ---- literals (C12) ----
\* the quoted symbols '5 and ' (the quote marker alone)
QuoteFive == Str(<<"'", "5">>)
QuoteOnly == Str(<<"'">>)

LiteralSuite ==
  { Num(0), Num(7), Num(-3), QuoteA, QuoteB, QuoteFive, QuoteOnly,
    Define(SymX, Num(1)), DefineId, Call1(SymF, Num(1)), Call1(SymF, QuoteA), SymX }

InitLiteral == InitFor(Lessons)
NextLiteral == \E p \in LiteralSuite, E \in EnvironmentArguments : Evaluate(p, E)
SpecLiteral == InitLiteral /\ [][NextLiteral]_vars

\* the last call evaluated a number or a quoted symbol
LiteralEvaluated ==
  \/ expression.t = "num"
  \/ expression.t = "str" /\ expression.s # <<>> /\ expression.s[1] = "'"

\* C12: a number and a quoted symbol evaluate to themselves in every
\* environment, and the environment is left as it was.
C12_LiteralsSelfEvaluate ==
  LiteralEvaluated => status = "ok" /\ result = expression /\ frames = before

\* a quoted symbol evaluated in the frame of a finished call
C12_QuotedInInnerFrame ==
  /\ LiteralEvaluated
  /\ expression = QuoteA
  /\ environment > TheGlobalEnvironment
  /\ result = QuoteA

\* ---- function definitions (C13) ----
\* (define (f) (print 1))
DefineF0Print == Arr(<<Sym(DefineTag), Arr(<<SymF>>), Call1(SymPrint, Num(1))>>)
\* (define (f) (define y 1) y)
DefineF0Local == Arr(<<Sym(DefineTag), Arr(<<SymF>>), Define(SymY, Num(1)), SymY>>)
\* (define (h a b) (define z a) (+ z b))
DefineH2 ==
  Arr(<<Sym(DefineTag), Arr(<<SymH, Sym(<<"a">>), Sym(<<"b">>)>>),
        Define(SymZ, Sym(<<"a">>)), Call2(SymPlus, SymZ, Sym(<<"b">>))>>)

SugarSuite ==
  { DefineF0Print, DefineF0Local, DefineId, DefineH2,
    Call1(SymF, Num(2)), Call2(SymH, Num(1), Num(2)), SymF, SymY, SymH,
    Define(SymY, Num(7)) }

InitSugar == InitFor({6, 7})
NextSugar == \E p \in SugarSuite, E \in EnvironmentArguments : Evaluate(p, E)
SpecSugar == InitSugar /\ [][NextSugar]_vars

\* the last call evaluated (define (name p1 ... pn) body...), n >= 0
FunctionDefined ==
  /\ expression.t = "arr"
  /\ Len(expression.a) >= 3
  /\ expression.a[1] = Sym(DefineTag)
  /\ expression.a[2].t = "arr"
  /\ Len(expression.a[2].a) >= 1

\* (define name (lambda (p1 ... pn) body...)) written out for (define (name p1 ... pn) body...)
LambdaForm(e) ==
  Define(e.a[2].a[1],
         Arr(<<Sym(LambdaTag), Arr(Tail(e.a[2].a))>> \o SubSeq(e.a, 3, Len(e.a))))

\* C13: a function definition leaves the environment as the definition of the
\* same name by the lambda does: the name is bound, in the frame of the
\* environment, to the compound procedure of these parameters and this body
\* closed over the environment, and only the define and the lambda are
\* evaluated, nothing of the body.
C13_SugarEqualsLambda ==
  FunctionDefined =>
    LET r == evaluate(LambdaForm(expression), environment, Fresh(before), lesson, MaxDepth)
        name == expression.a[2].a[1].s
        E == EnvOf(environment)
    IN /\ status = r.status
       /\ frames = r.frames
       /\ result = r.val
       /\ status = "ok"
       /\ name \in DOMAIN frames[E].b
       /\ frames[E].b[name] =
            makeFunction(Arr(Tail(expression.a[2].a)),
                         Arr(SubSeq(expression.a, 3, Len(expression.a))), E)
       /\ Cardinality(EvalEvents(trace)) = 2

\* (define (f) (define y 1) y) ran its first body expression when defined:
\* y is bound, and f is bound to its value, not to a procedure
C13_BodyRanAtDefinition ==
  /\ FunctionDefined
  /\ expression = DefineF0Local
  /\ status = "ok"
  /\ SymY.s \in DOMAIN frames[EnvOf(environment)].b
  /\ frames[EnvOf(environment)].b[SymF.s] = Num(1)

\* ---- if (C14, C15) ----
SymNull == Sym(<<"n", "u", "l", "l">>)
If3(p, c, a) == Arr(<<Sym(IfTag), p, c, a>>)
If2(p, c) == Arr(<<Sym(IfTag), p, c>>)
\* (= 1 2), false, and (= 1 1), true
EqFalse == Call2(SymEq, Num(1), Num(2))
EqTrue == Call2(SymEq, Num(1), Num(1))
\* (if (= 1 2) 5 0)
IfAltZero == If3(EqFalse, Num(5), Num(0))
\* (if null (define y 9) null)
IfAltNull == If3(SymNull, Define(SymY, Num(9)), SymNull)
\* (if (= 1 2) (define y 9) (define z 3))
IfAltDefine == If3(EqFalse, Define(SymY, Num(9)), Define(SymZ, Num(3)))
\* (if (= 1 2) (define y 9))
IfNoAlt == If2(EqFalse, Define(SymY, Num(9)))
\* (if (= 1 1) (define y 9) (define z 3))
IfTrue == If3(EqTrue, Define(SymY, Num(9)), Define(SymZ, Num(3)))
\* (if x (define y 9) (define z 3))
IfX == If3(SymX, Define(SymY, Num(9)), Define(SymZ, Num(3)))

IfSuite ==
  { IfAltZero, IfAltNull, IfAltDefine, IfNoAlt, IfTrue, IfX,
    Define(SymX, Num(0)), Define(SymX, Num(1)), Define(SymX, QuoteA),
    Define(SymX, SymNull), SymY, SymZ }

InitIf == InitFor({7})
NextIf == \E p \in IfSuite, E \in EnvironmentArguments : Evaluate(p, E)
SpecIf == InitIf /\ [][NextIf]_vars

IfEvaluated ==
  /\ expression.t = "arr"
  /\ Len(expression.a) \in {3, 4}
  /\ expression.a[1] = Sym(IfTag)

\* the predicate of the last call, evaluated as the call evaluated it
PredicateOutcome == evaluate(expression.a[2], environment, Fresh(before), lesson, MaxDepth)

\* the call ended as the evaluation of the branch e after the predicate ends
EndsAs(e) ==
  LET r == evaluate(e, environment, Fresh(PredicateOutcome.frames), lesson, MaxDepth)
  IN status = r.status /\ result = r.val /\ frames = r.frames

\* the consequent was not evaluated
ConsequentSkipped == \A i \in EvalEvents(trace) : trace[i][2] # expression.a[3]

FalsyPredicate ==
  /\ IfEvaluated
  /\ PredicateOutcome.status = "ok"
  /\ PredicateOutcome.val \in {Bool(FALSE), Null}

\* C14: when the predicate is false or null, the if ends as its alternative
\* expression does, whatever that expression is, and the consequent is not
\* evaluated; without an alternative the result is false.
C14_FalsyPredicateTakesAlternative ==
  FalsyPredicate =>
    /\ ConsequentSkipped
    /\ IF Len(expression.a) = 4 THEN EndsAs(expression.a[4])
       ELSE status = "ok" /\ result = Bool(FALSE) /\ frames = PredicateOutcome.frames

\* the alternative 0 was supplied and false came back
C14_ZeroAlternativeLost ==
  /\ FalsyPredicate
  /\ expression = IfAltZero
  /\ status = "ok"
  /\ result = Bool(FALSE)

\* C15: the consequent is chosen for every predicate value other than false
\* and null, the number 0 included.
C15_OnlyFalseAndNullAreFalsy ==
  (/\ IfEvaluated
   /\ PredicateOutcome.status = "ok"
   /\ PredicateOutcome.val \notin {Bool(FALSE), Null}) => EndsAs(expression.a[3])

\* x is 0 and (if x (define y 9) (define z 3)) defined z
C15_ZeroTakesAlternative ==
  /\ IfEvaluated
  /\ expression = IfX
  /\ PredicateOutcome.val = Num(0)
  /\ status = "ok"
  /\ result = Num(3)
  /\ ConsequentSkipped

\* ---- order of evaluation (C16) ----
\* (+ (define x 1) (define y 2) (+ x y))
OrderDefines ==
  Arr(<<SymPlus, Define(SymX, Num(1)), Define(SymY, Num(2)), Call2(SymPlus, SymX, SymY)>>)
\* (+ (define x 1) (set! x (+ x 1)) (+ x 0))
OrderAssign ==
  Arr(<<SymPlus, Define(SymX, Num(1)), Assign(SymX, Call2(SymPlus, SymX, Num(1))),
        Call2(SymPlus, SymX, Num(0))>>)
\* (print (define z 7) z)
OrderPrint == Call2(SymPrint, Define(SymZ, Num(7)), SymZ)
\* (+ z (define z 4))
OrderReadFirst == Call2(SymPlus, SymZ, Define(SymZ, Num(4)))
\* (define (f a b) (print a) (+ a b))
DefineF2Print ==
  Arr(<<Sym(DefineTag), Arr(<<SymF, Sym(<<"a">>), Sym(<<"b">>)>>),
        Call1(SymPrint, Sym(<<"a">>)), Call2(SymPlus, Sym(<<"a">>), Sym(<<"b">>))>>)
\* (f (define y 3) (+ y 1))
OrderCompound == Call2(SymF, Define(SymY, Num(3)), Call2(SymPlus, SymY, Num(1)))

OrderSuite ==
  { OrderDefines, OrderAssign, OrderPrint, OrderReadFirst, DefineF2Print, OrderCompound,
    SymX, SymY, SymZ, Define(SymZ, Num(0)) }

InitOrder == InitFor(Lessons)
NextOrder == \E p \in OrderSuite, E \in EnvironmentArguments : Evaluate(p, E)
SpecOrder == InitOrder /\ [][NextOrder]_vars

\* the last call evaluated an application of two or more operands
OrderedCall ==
  /\ expression.t = "arr"
  /\ Len(expression.a) >= 3
  /\ expression.a[1] \in {SymPlus, SymPrint, SymF}

\* the operands from the i-th on evaluated one after the other, each alone and
\* to its end on the frames the one before left, stopping at the first failure:
\* the frames left, the evaluate and print events in order, the values
RECURSIVE OneByOne(_, _, _)
OneByOne(operands, i, acc) ==
  IF i > Len(operands) \/ acc.status # "ok" THEN acc
  ELSE LET r == evaluate(operands[i], environment, Fresh(acc.frames), lesson, MaxDepth)
       IN OneByOne(operands, i + 1,
                   [frames |-> r.frames, trace |-> acc.trace \o r.trace,
                    status |-> r.status, vals |-> Append(acc.vals, r.val)])

\* C16: the events of an application are those of its operator, then those of
\* its operands one by one from left to right, each on the environment the one
\* before left, then those of the procedure applied to the values; a failure
\* ends the call where it happens.
C16_OperatorThenOperandsInOrder ==
  OrderedCall =>
    LET E == EnvOf(environment)
        o == evaluate(expression.a[1], environment, Fresh(before), lesson, MaxDepth)
        r == OneByOne(Tail(expression.a), 1,
                      [frames |-> o.frames, trace |-> <<>>, status |-> o.status, vals |-> <<>>])
        head == <<<<"eval", expression, E>>>> \o o.trace \o r.trace
    IN IF r.status # "ok"
       THEN status = r.status /\ frames = r.frames /\ trace = head
       ELSE LET a == apply(o.val, r.vals, Fresh(r.frames), lesson, MaxDepth)
            IN /\ status = a.status
               /\ frames = a.frames
               /\ result = a.val
               /\ trace = head \o a.trace

\* (+ (define x 1) (set! x (+ x 1)) (+ x 0)) where x was unbound: 1 + 2 + 2
C16_LaterOperandSeesEarlier ==
  /\ OrderedCall
  /\ expression = OrderAssign
  /\ ~HasProperty(before, EnvOf(environment), SymX.s)
  /\ status = "ok"
  /\ result = Num(5)

\* ---- the right-hand side of a definition (C17) ----
SymA == Sym(<<"a">>)
\* (define (g a) a)
DefineGA == Arr(<<Sym(DefineTag), Arr(<<SymG, SymA>>), SymA>>)
\* (define z (+ a 1))
DefineZFromA == Define(SymZ, Call2(SymPlus, SymA, Num(1)))
\* (define (f a) (define z (+ a 1)) z)
DefineFLocal == Arr(<<Sym(DefineTag), Arr(<<SymF, SymA>>), DefineZFromA, SymZ>>)

RhsSuite ==
  { DefineGA, Call1(SymG, Num(5)), DefineZFromA, Define(SymZ, SymA), Define(SymA, Num(10)),
    DefineFLocal, Call1(SymF, Num(1)), SymZ, SymA, Define(SymX, Num(1)) }

InitRhs == InitFor(Lessons)
NextRhs == \E p \in RhsSuite, E \in EnvironmentArguments : Evaluate(p, E)
SpecRhs == InitRhs /\ [][NextRhs]_vars

\* the last call evaluated (define name rhs), name a symbol
VariableDefined ==
  /\ expression.t = "arr"
  /\ Len(expression.a) = 3
  /\ expression.a[1] = Sym(DefineTag)
  /\ expression.a[2].t = "str"

\* C17: (define name rhs) evaluated in E ends as rhs evaluated in E ends, and
\* binds name in E to that value.
C17_RhsEvaluatedInSameEnvironment ==
  VariableDefined =>
    LET r == evaluate(expression.a[3], environment, Fresh(before), lesson, MaxDepth)
    IN /\ status = r.status
       /\ status = "ok" =>
            /\ result = r.val
            /\ frames = [r.frames EXCEPT ![EnvOf(environment)].b =
                           [k \in DOMAIN @ \cup {expression.a[2].s} |->
                              IF k = expression.a[2].s THEN r.val ELSE @[k]]]

\* lesson 5: (define z (+ a 1)) in a frame that binds a fails, or reads the
\* global a
C17_ParameterNotSeen ==
  /\ VariableDefined
  /\ expression = DefineZFromA
  /\ environment > TheGlobalEnvironment
  /\ SymA.s \in DOMAIN before[environment].b
  /\ \/ status = "ReferenceError"
     \/ status = "ok" /\ result # Num(before[environment].b[SymA.s].n + 1)

\* ---- definitions are local (C18) ----
\* (define (g x) x)
DefineGX == Arr(<<Sym(DefineTag), Arr(<<SymG, SymX>>), SymX>>)

LocalSuite ==
  { Define(SymX, Num(1)), Define(SymX, Num(2)), Define(SymY, QuoteA),
    Define(Sym(ProtoKey), Num(5)), Define(Sym(ConstructorKey), Num(3)), Define(Num(7), Num(1)),
    DefineGX, Call1(SymG, Num(5)), SymX, SymY }

InitLocal == InitFor(Lessons)
NextLocal == \E p \in LocalSuite, E \in EnvironmentArguments : Evaluate(p, E)
SpecLocal == InitLocal /\ [][NextLocal]_vars

\* the last call evaluated (define name v), v a number or a quoted symbol
LiteralDefined ==
  /\ expression.t = "arr"
  /\ Len(expression.a) = 3
  /\ expression.a[1] = Sym(DefineTag)
  /\ isVariable(expression.a[2], lesson)
  /\ isSelfEvaluating(expression.a[3])

DefinedKey == ToStr(expression.a[2])

\* C18: (define name v) in E binds name to v in the frame of E, whether or
\* not the frame or an ancestor bound it before, and changes nothing else:
\* no other binding of the frame, no binding and no parent of any other frame.
C18_DefinitionIsLocal ==
  LiteralDefined =>
    /\ status = "ok"
    /\ frames = [before EXCEPT ![EnvOf(environment)].b =
                   [k \in DOMAIN @ \cup {DefinedKey} |->
                      IF k = DefinedKey THEN expression.a[3] ELSE @[k]]]

\* (define __proto__ 5) returned and the frame has no binding of __proto__
C18_NothingBound ==
  /\ LiteralDefined
  /\ DefinedKey = ProtoKey
  /\ status = "ok"
  /\ ProtoKey \notin DOMAIN frames[EnvOf(environment)].b

\* ---- blocks (C19) ----
Begin(es) == Arr(<<Sym(BeginTag)>> \o es)
\* (begin (define x 1) (define y (+ x 1)) (+ x y))
BlockDefines ==
  Begin(<<Define(SymX, Num(1)), Define(SymY, Call2(SymPlus, SymX, Num(1))),
          Call2(SymPlus, SymX, SymY)>>)
\* (begin 5)
BlockOne == Begin(<<Num(5)>>)
\* (begin (set! x 9) x)
BlockAssign == Begin(<<Assign(SymX, Num(9)), SymX>>)
\* (begin z (define z 1))
BlockReadFirst == Begin(<<SymZ, Define(SymZ, Num(1))>>)
\* (begin (print 'a) 'b)
BlockPrint == Begin(<<Call1(SymPrint, QuoteA), QuoteB>>)

BlockSuite ==
  { BlockDefines, BlockOne, BlockAssign, BlockReadFirst, BlockPrint,
    DefineGA, Call1(SymG, Num(5)), SymX, SymY, Define(SymZ, Num(0)) }

InitBlock == InitFor({6, 7})
NextBlock == \E p \in BlockSuite, E \in EnvironmentArguments : Evaluate(p, E)
SpecBlock == InitBlock /\ [][NextBlock]_vars

\* the last call evaluated (begin e1 ... en), n >= 1
BlockEvaluated ==
  /\ expression.t = "arr"
  /\ Len(expression.a) >= 2
  /\ expression.a[1] = Sym(BeginTag)

\* C19: a block ends as its expressions evaluated one by one, in order, in
\* the environment of the block: same events, same frames and no new one, the
\* value of the last expression as result.
C19_BlockRunsInOrderInPlace ==
  BlockEvaluated =>
    LET r == OneByOne(Tail(expression.a), 1,
                      [frames |-> before, trace |-> <<>>, status |-> "ok", vals |-> <<>>])
    IN /\ status = r.status
       /\ frames = r.frames
       /\ Len(frames) = Len(before)
       /\ trace = <<<<"eval", expression, EnvOf(environment)>>>> \o r.trace
       /\ status = "ok" => result = r.vals[Len(expression.a) - 1]

\* the definitions of a block evaluated in an activation frame stay in it
C19_DefinitionsStayInFrame ==
  /\ BlockEvaluated
  /\ expression = BlockDefines
  /\ environment > TheGlobalEnvironment
  /\ status = "ok"
  /\ result = Num(3)
  /\ frames[environment].b[SymY.s] = Num(2)

\* ---- the shape of environments (C20) ----
ShapeSuite ==
  { DefineGA, Call1(SymG, Num(5)), Define(SymX, Num(1)), SymX, SymA,
    Sym(ConstructorKey), Sym(ToStringKey),
    Define(Sym(ProtoKey), SymNull), Define(Sym(ProtoKey), Num(5)), Assign(SymX, Num(2)) }

InitShape == InitFor(Lessons)
NextShape == \E p \in ShapeSuite, E \in EnvironmentArguments : Evaluate(p, E)
SpecShape == InitShape /\ [][NextShape]_vars

\* the parent chain of the frame f ends at the global frame
EndsAtGlobal(f) ==
  LET c == Chain(frames, f)
  IN c # <<>> /\ c[Len(c)] = TheGlobalEnvironment

\* C20: the global frame has no parent, the parent chain of every other frame
\* ends at the global frame, and a name that resolves is resolved by a frame
\* of the chain, the global frame at the farthest.
C20_EnvironmentShape ==
  /\ frames[TheGlobalEnvironment].parent = 0
  /\ \A f \in (TheGlobalEnvironment + 1)..Len(frames) : EndsAtGlobal(f)
  /\ (LookedUp /\ status = "ok") =>
       Owner(before, EnvOf(environment), expression.s) > ObjectPrototype

\* constructor, bound by no frame, resolved to what the global object inherits
C20_ResolvedBeyondGlobal ==
  /\ LookedUp
  /\ expression = Sym(ConstructorKey)
  /\ status = "ok"
  /\ result = Native(ConstructorKey)
  /\ frames[TheGlobalEnvironment].parent = ObjectPrototype

\* an activation frame whose chain no longer reaches the global frame
C20_FrameDetached ==
  \E f \in (TheGlobalEnvironment + 1)..Len(frames) : ~EndsAtGlobal(f)

\* ---- a failure ends the whole call (C21) ----
SymQ == Sym(<<"q">>)
\* (begin (define x 1) (+ x q) (define y 2))
AbortBlock ==
  Begin(<<Define(SymX, Num(1)), Call2(SymPlus, SymX, SymQ), Define(SymY, Num(2))>>)
\* (+ (define x 1) q (define y 2))
AbortOperand == Arr(<<SymPlus, Define(SymX, Num(1)), SymQ, Define(SymY, Num(2))>>)
\* (define y (+ (define x 1) q))
AbortDefine == Define(SymY, Call2(SymPlus, Define(SymX, Num(1)), SymQ))
\* (set! x (begin (define z 3) q))
AbortAssign == Assign(SymX, Begin(<<Define(SymZ, Num(3)), SymQ>>))
\* (if (= q 1) (define y 2) (define y 3))
AbortIf == If3(Call2(SymEq, SymQ, Num(1)), Define(SymY, Num(2)), Define(SymY, Num(3)))
\* (define (g a) (define z a) q (define y 5))
DefineGAbort ==
  Arr(<<Sym(DefineTag), Arr(<<SymG, SymA>>), Define(SymZ, SymA), SymQ, Define(SymY, Num(5))>>)
\* (begin (define x 1) (g 1 2) (define y 2))
AbortArity == Begin(<<Define(SymX, Num(1)), Call2(SymG, Num(1), Num(2)), Define(SymY, Num(2))>>)
\* (begin (define x 1) (cond (else 1) ((= x 1) 2)) (define y 2))
AbortElse ==
  Begin(<<Define(SymX, Num(1)),
          Cond(<<Arr(<<SymElse, Num(1)>>), Arr(<<XIs(1), Num(2)>>)>>),
          Define(SymY, Num(2))>>)
\* (begin (define x 1) ((begin +)) (define y 2)): + applied to no argument
AbortBuiltIn ==
  Begin(<<Define(SymX, Num(1)), Arr(<<Begin(<<SymPlus>>)>>), Define(SymY, Num(2))>>)

AbortSuite ==
  { AbortBlock, AbortOperand, AbortDefine, AbortAssign, AbortIf, DefineGAbort,
    Call1(SymG, Num(7)), AbortArity, AbortElse, AbortBuiltIn, Define(SymQ, Num(0)), SymX, SymY }

InitAbort == InitFor({7})
NextAbort == \E p \in AbortSuite, E \in EnvironmentArguments : Evaluate(p, E)
SpecAbort == InitAbort /\ [][NextAbort]_vars

\* the last call evaluated a form that encloses subexpressions: a definition
\* or an assignment of a variable, a block, an if or an application
EnclosingEvaluated ==
  /\ expression.t = "arr"
  /\ Len(expression.a) >= 2
  /\ ~isSelfEvaluating(expression)
  /\ ~isVariable(expression, lesson)
  /\ ~isLambda(expression)
  /\ ~isCond(expression)
  /\ (isDefinition(expression) \/ isAssignment(expression)) => expression.a[2].t = "str"

\* the subexpressions an enclosing form evaluates before it acts, in order
Parts(e) ==
  IF isDefinition(e) \/ isAssignment(e) THEN <<e.a[3]>>
  ELSE IF isBlock(e) THEN Tail(e.a)
  ELSE IF isIf(e) THEN <<e.a[2]>>
  ELSE e.a

\* the expressions from the i-th on evaluated in env one after the other, each
\* alone on the frames the one before left, stopping at the first failure
RECURSIVE EachInTurn(_, _, _, _)
EachInTurn(es, env, i, acc) ==
  IF i > Len(es) \/ acc.status # "ok" THEN acc
  ELSE LET r == evaluate(es[i], env, Fresh(acc.frames), lesson, MaxDepth)
       IN EachInTurn(es, env, i + 1,
                     [frames |-> r.frames, trace |-> acc.trace \o r.trace,
                      status |-> r.status, vals |-> Append(acc.vals, r.val)])

Started(fr) == [frames |-> fr, trace |-> <<>>, status |-> "ok", vals |-> <<>>]

\* the enclosing form is an application whose operator and operands evaluated
\* to a compound procedure and as many values as it has parameters
BodyEntered(e, r) ==
  /\ ~isDefinition(e) /\ ~isAssignment(e) /\ ~isBlock(e) /\ ~isIf(e)
  /\ r.status = "ok"
  /\ IsCompound(r.vals[1])
  /\ getFunctionParameters(r.vals[1]).t = "arr"
  /\ Len(getFunctionParameters(r.vals[1]).a) = Len(r.vals) - 1

\* C21: when a subexpression of an enclosing form (or an expression of the
\* body of the procedure it applies) fails, the call fails with that error,
\* its events are those up to the failure and no later one, and the frames
\* are as the failing subexpression left them: what was written stays, the
\* pending definition or assignment is not made.
C21_FailureEndsTheCall ==
  EnclosingEvaluated =>
    LET E == EnvOf(environment)
        head == <<<<"eval", expression, E>>>>
        r == EachInTurn(Parts(expression), E, 1, Started(before))
    IN /\ r.status # "ok" =>
            /\ status = r.status
            /\ frames = r.frames
            /\ trace = head \o r.trace
       /\ BodyEntered(expression, r) =>
            LET f == r.vals[1]
                ext == extendEnvironment(getFunctionParameters(f).a, Tail(r.vals), f.env, r.frames)
                b == EachInTurn(getFunctionBody(f).a, ext.env, 1, Started(ext.frames))
            IN b.status # "ok" =>
                 /\ status = b.status
                 /\ frames = b.frames
                 /\ trace = head \o r.trace \o b.trace

\* (define y (+ (define x 1) q)) where x, y and q were unbound: the call
\* failed on q, x stays bound to 1, y was never bound
C21_PendingDefineNotMade ==
  /\ EnclosingEvaluated
  /\ expression = AbortDefine
  /\ ~HasProperty(before, EnvOf(environment), SymX.s)
  /\ ~HasProperty(before, EnvOf(environment), SymY.s)
  /\ status = "ReferenceError"
  /\ frames[EnvOf(environment)].b[SymX.s] = Num(1)
  /\ ~HasProperty(frames, EnvOf(environment), SymY.s)
  /\ trace[Len(trace)] = <<"eval", SymQ, EnvOf(environment)>>

\* ---- pairs and lists of note 3, the efficient implementation (C22) ----
\* var pair = function (x, y): [x].concat(y) for an array y, [x, y] otherwise
pair(x, y) == IF y.t = "arr" THEN Arr(<<x>> \o y.a) ELSE Arr(<<x, y>>)
\* var first = function (pair): pair[0]
first(p) == Index(p, 0)
\* var rest = function (pair): the tail of an array of more than two
\* elements (the statement "if (tail.length == 1) tail[1];" does nothing),
\* the second cell otherwise
rest(p) == IF Len(p.a) > 2 THEN Slice(p, 1) ELSE Index(p, 1)
\* var list = function (/* arguments */): the arguments and a closing null
list(args) == Arr(Append(args, Null))

PairTag == <<"p", "a", "i", "r">>
ListTag == <<"l", "i", "s", "t">>
FirstTag == <<"f", "i", "r", "s", "t">>
RestTag == <<"r", "e", "s", "t">>

\* the simple values handed to pair and list
MaxArguments == 2
SimpleValues == {Num(1), Num(2), Null, QuoteA}
ArgumentLists == UNION {[1..n -> SimpleValues] : n \in 0..MaxArguments}

\* the last operation returned a structure built by pair or list
Built == expression.t = "arr" /\ Index(expression, 0) \in {Sym(PairTag), Sym(ListTag)}

InitPairs ==
  /\ lesson = 0
  /\ frames = <<>>
  /\ expression = Undef
  /\ environment = 0
  /\ result = Undef
  /\ status = "ok"
  /\ trace = <<>>
  /\ before = <<>>
  /\ calls = 0

\* the operation op was called and returned v
Returned(op, v) ==
  /\ calls < MaxCalls
  /\ expression' = op
  /\ result' = v
  /\ calls' = calls + 1
  /\ UNCHANGED <<lesson, frames, environment, status, trace, before>>

\* pair(x, y): x any value at hand, y a simple value or the structure built last
CallPair ==
  \E x \in SimpleValues \cup (IF Built THEN {result} ELSE {}),
     y \in SimpleValues \cup (IF Built THEN {result} ELSE {}) :
    Returned(Arr(<<Sym(PairTag), x, y>>), pair(x, y))

\* list(a1, ..., an)
CallList == \E args \in ArgumentLists : Returned(Arr(<<Sym(ListTag)>> \o args), list(args))

\* first(p) and rest(p) of the structure at hand
CallFirst == result.t = "arr" /\ Returned(Arr(<<Sym(FirstTag), result>>), first(result))
CallRest == result.t = "arr" /\ Returned(Arr(<<Sym(RestTag), result>>), rest(result))

NextPairs == CallPair \/ CallList \/ CallFirst \/ CallRest
SpecPairs == InitPairs /\ [][NextPairs]_vars

\* pair(a1, pair(a2, ... pair(an, null)))
RECURSIVE ChainedPairs(_)
ChainedPairs(args) ==
  IF args = <<>> THEN Null ELSE pair(args[1], ChainedPairs(Tail(args)))

\* C22: first(pair(x, y)) is x and rest(pair(x, y)) is y, for y a simple value
\* or a structure built by pair or list, and list(a1, ..., an) is the chain of
\* pairs pair(a1, pair(a2, ... pair(an, null))).
C22_PairListContract ==
  /\ (expression.t = "arr" /\ Index(expression, 0) = Sym(PairTag)) =>
       /\ first(result) = expression.a[2]
       /\ rest(result) = expression.a[3]
  /\ (expression.t = "arr" /\ Index(expression, 0) = Sym(ListTag)) =>
       result = ChainedPairs(Tail(expression.a))

\* C22 fails on the code: list() is [null], pair(1, list()) is [1, null], of
\* which rest is null and not the empty list
C22_EmptyListLost ==
  /\ expression = Arr(<<Sym(PairTag), Num(1), list(<<>>)>>)
  /\ result = Arr(<<Num(1), Null>>)
  /\ rest(result) = Null
  /\ rest(result) # list(<<>>)

\* ---- the postfix evaluator (C23) ----
\* a quotient that is no integer, or a division by zero: a number outside
\* the integers of this model
NotAnInteger == [t |-> "frac", n |-> 0, s |-> <<>>, a |-> <<>>, env |-> 0]

JsDiv(x, y) ==
  IF ToNum(x).t = "nan" \/ ToNum(y).t = "nan" THEN NaN
  ELSE IF ToNum(y).n # 0 /\ ToNum(x).n % ToNum(y).n = 0
       THEN (IF ToNum(x).n >= 0 THEN Num(ToNum(x).n \div ToNum(y).n)
             ELSE Num(0 - ((0 - ToNum(x).n) \div ToNum(y).n)))
  ELSE NotAnInteger

\* var operators = {"+": ..., "-": ..., "*": ..., "/": ...}
OperatorChars == {"+", "-", "*", "/"}
operators(ch, a, b) ==
  CASE ch = "+" -> JsAdd(a, b)
    [] ch = "-" -> JsSub(a, b)
    [] ch = "*" -> JsMul(a, b)
    [] ch = "/" -> JsDiv(a, b)

\* stack.pop(): <<the value, the stack left>>; undefined of an empty stack
Pop(stack) ==
  IF stack = <<>> THEN <<Undef, stack>>
  ELSE <<stack[Len(stack)], SubSeq(stack, 1, Len(stack) - 1)>>

\* the for loop of postfixEval from the character k on (one-based): the stack
\* it leaves.  A digit is pushed as the character it is; the operands of an
\* operator are converted with unary plus, b popped first.
RECURSIVE postfixLoop(_, _, _)
postfixLoop(string, k, stack) ==
  IF k > Len(string) THEN stack
  ELSE LET ch == string[k]
       IN IF ch \in DigitChars THEN postfixLoop(string, k + 1, Append(stack, Str(<<ch>>)))
          ELSE IF ch \in OperatorChars
          THEN LET pb == Pop(stack)
                   pa == Pop(pb[2])
                   value == operators(ch, ToNum(pa[1]), ToNum(pb[1]))
               IN postfixLoop(string, k + 1, Append(pa[2], value))
          ELSE postfixLoop(string, k + 1, stack)

\* postfixEval(string): the value returned or the error thrown, and the stack
postfixEval(string) ==
  LET stack == postfixLoop(string, 1, <<>>)
  IN IF Len(stack) > 1 THEN [status |-> "ParseError", val |-> Undef, stack |-> stack]
     ELSE [status |-> "ok", val |-> Index(Arr(stack), 0), stack |-> stack]

\* the strings handed to postfixEval
MaxLen == 5
PostfixChars == {"2", "3", "+", "-", "*", " "}
PostfixStrings == UNION {[1..n -> PostfixChars] : n \in 0..MaxLen}

\* expression is the string, trace the stack postfixEval ended with
InitPostfix ==
  /\ lesson = 0
  /\ frames = <<>>
  /\ expression \in {Str(cs) : cs \in PostfixStrings}
  /\ environment = 0
  /\ result = Undef
  /\ status = "ok"
  /\ trace = <<>>
  /\ before = <<>>
  /\ calls = 0

CallPostfixEval ==
  /\ calls = 0
  /\ LET r == postfixEval(expression.s)
     IN /\ result' = r.val
        /\ status' = r.status
        /\ trace' = r.stack
  /\ calls' = 1
  /\ UNCHANGED <<lesson, frames, expression, environment, before>>

NextPostfix == CallPostfixEval
SpecPostfix == InitPostfix /\ [][NextPostfix]_vars

\* the digits and operators of a string, the blanks left out
Tokens(cs) == SelectSeq(cs, LAMBDA c : c # " ")

\* a postfix expression: a digit, or two postfix expressions and an operator
RECURSIVE IsPostfix(_)
IsPostfix(ts) ==
  \/ Len(ts) = 1 /\ ts[1] \in DigitChars
  \/ /\ Len(ts) >= 3
     /\ ts[Len(ts)] \in {"+", "-", "*"}
     /\ \E i \in 1..(Len(ts) - 2) :
          IsPostfix(SubSeq(ts, 1, i)) /\ IsPostfix(SubSeq(ts, i + 1, Len(ts) - 1))

\* the number a postfix expression denotes: left operand, right operand, operator
RECURSIVE Denotes(_)
Denotes(ts) ==
  IF Len(ts) = 1 THEN DigitValue(ts[1])
  ELSE LET i == CHOOSE j \in 1..(Len(ts) - 2) :
                  IsPostfix(SubSeq(ts, 1, j)) /\ IsPostfix(SubSeq(ts, j + 1, Len(ts) - 1))
           l == Denotes(SubSeq(ts, 1, i))
           r == Denotes(SubSeq(ts, i + 1, Len(ts) - 1))
       IN CASE ts[Len(ts)] = "+" -> l + r
            [] ts[Len(ts)] = "-" -> l - r
            [] ts[Len(ts)] = "*" -> l * r

\* postfixEval was called on a well-formed expression
PostfixEvaluated == calls = 1 /\ expression.t = "str" /\ IsPostfix(Tokens(expression.s))

\* C23: for a well-formed postfix expression postfixEval returns the number
\* the expression denotes, the earlier operand on the left of each operator,
\* and ends with that one value on its stack.
C23_PostfixValue ==
  PostfixEvaluated =>
    /\ status = "ok"
    /\ result = Num(Denotes(Tokens(expression.s)))
    /\ trace = <<result>>

\* C23 fails on the code: a digit alone is returned as the character pushed,
\* the string "2" and not the number 2
C23_DigitReturnedAsString ==
  /\ PostfixEvaluated
  /\ expression = Str(<<"2">>)
  /\ result = Str(<<"2">>)
  /\ result # Num(2)

\* ---- the clause a cond selects (C24) ----
SymW == Sym(<<"w">>)
\* (cond ((= x 0) (define y 1)) ((= x 1) (define z 2)) (else (define w 3)))
CondThree ==
  Cond(<<Arr(<<XIs(0), Define(SymY, Num(1))>>), Arr(<<XIs(1), Define(SymZ, Num(2))>>),
         Arr(<<SymElse, Define(SymW, Num(3))>>)>>)
\* (cond ((= x 0) 'a) ((= x 1) 'b))
CondNoElse == Cond(<<Arr(<<XIs(0), QuoteA>>), Arr(<<XIs(1), QuoteB>>)>>)
\* (cond)
CondEmpty == Cond(<<>>)
\* (cond (else 7))
CondElseOnly == Cond(<<Arr(<<SymElse, Num(7)>>)>>)
\* (cond ((= x 0) 5) (else 0))
CondElseZero == Cond(<<Arr(<<XIs(0), Num(5)>>), Arr(<<SymElse, Num(0)>>)>>)
\* (cond ((= (set! x 1) 0) 'a) ((= x 1) 'b) (else 'c))
CondPredicateWrites ==
  Cond(<<Arr(<<Call2(SymEq, Assign(SymX, Num(1)), Num(0)), QuoteA>>),
         Arr(<<XIs(1), QuoteB>>), Arr(<<SymElse, QuoteC>>)>>)

SelectSuite ==
  { CondSingle, CondThree, CondNoElse, CondEmpty, CondElseOnly, CondElseZero,
    CondPredicateWrites, Define(SymX, Num(0)), Define(SymX, Num(1)), Define(SymX, Num(2)),
    SymY, SymZ, SymW }

InitSelect == InitFor({7})
NextSelect == \E p \in SelectSuite, E \in EnvironmentArguments : Evaluate(p, E)
SpecSelect == InitSelect /\ [][NextSelect]_vars

\* the last call evaluated a cond of clauses of one action each, an else
\* clause, if any, the last one
OneActionCond ==
  /\ CondEvaluated
  /\ ~MisplacedElse(expression)
  /\ \A i \in 2..Len(expression.a) : expression.a[i].t = "arr" /\ Len(expression.a[i].a) = 2

\* the clauses from the i-th on tried in order on what the earlier predicates
\* left: the predicate evaluated alone; the action of the first clause whose
\* predicate is true, or of the else clause, evaluated and nothing after it; the
\* false sentinel when the clauses run out
RECURSIVE SelectClause(_, _, _, _)
SelectClause(clauses, i, env, acc) ==
  IF i > Len(clauses) THEN [acc EXCEPT !.val = Bool(FALSE)]
  ELSE LET action == clauses[i].a[2]
           p == IF clauses[i].a[1] = SymElse THEN Ret(Fresh(acc.frames), Bool(TRUE))
                ELSE evaluate(clauses[i].a[1], env, Fresh(acc.frames), lesson, MaxDepth)
           seen == acc.trace \o p.trace
       IN IF p.status # "ok" THEN [p EXCEPT !.trace = seen]
          ELSE IF Truthy(p.val)
          THEN LET r == evaluate(action, env, Fresh(p.frames), lesson, MaxDepth)
               IN [r EXCEPT !.trace = seen \o r.trace]
          ELSE SelectClause(clauses, i + 1, env, [p EXCEPT !.trace = seen])

\* the events of a cond that are evaluations of its predicates and actions:
\* those of the cond, of the ifs it is rewritten to and of the false sentinel
\* left out
ClauseEvents(tr) ==
  SelectSeq(tr, LAMBDA ev :
    ~(ev[1] = "eval" /\ (ev[2] = Bool(FALSE) \/ (ev[2].t = "arr" /\ (isIf(ev[2]) \/ isCond(ev[2]))))))

\* C24: a cond of one-action clauses evaluates the predicates in clause order
\* up to the first true one, then that clause's action and nothing else, and
\* returns the action's value; the else clause's action when the else clause
\* is reached; the false sentinel when no clause is taken.
C24_FirstTrueClauseOnly ==
  OneActionCond =>
    LET r == SelectClause(Tail(expression.a), 1, EnvOf(environment), Fresh(before))
    IN /\ status = r.status
       /\ frames = r.frames
       /\ status = "ok" => result = r.val
       /\ ClauseEvents(trace) = r.trace

\* C24 fails on the code: (cond ((= x 0) 5) (else 0)) with x = 1 reaches the
\* else clause and returns false, not the 0 of its action
C24_ElseZeroLost ==
  /\ OneActionCond
  /\ expression = CondElseZero
  /\ GetProperty(before, EnvOf(environment), SymX.s) = Num(1)
  /\ status = "ok"
  /\ result = Bool(FALSE)

\* (cond) is the one-element array ["cond"], which evaluate takes for the
\* variable cond: the call fails instead of returning the false sentinel
C24_EmptyCondUnbound ==
  /\ OneActionCond
  /\ expression = CondEmpty
  /\ status = "ReferenceError"

\* ---- applications without operands (C25) ----
\* (define h (lambda () (set! n (+ n 1)) n))
DefineCounter ==
  Define(SymH, Arr(<<Sym(LambdaTag), Arr(<<>>),
                     Assign(SymN, Call2(SymPlus, SymN, Num(1))), SymN>>))
\* ((lambda () 1)): the operator is no name
CallLambda0 == Arr(<<Lambda1(<<>>, Num(1))>>)

NoOperandSuite ==
  { DefineG0, DefineCounter, Define(SymN, Num(0)), Call0(SymG), Call0(SymH), CallLambda0,
    Call1(SymPrint, Call0(SymH)), DefineGA, Call1(SymG, Num(5)), SymN }

InitNoOperand == InitFor({6, 7})
NextNoOperand == \E p \in NoOperandSuite, E \in EnvironmentArguments : Evaluate(p, E)
SpecNoOperand == InitNoOperand /\ [][NextNoOperand]_vars

\* the last call evaluated (f), f a name bound to a compound procedure
\* without parameters
NoOperandCall ==
  /\ expression.t = "arr"
  /\ Len(expression.a) = 1
  /\ expression.a[1].t = "str"
  /\ HasProperty(before, EnvOf(environment), expression.a[1].s)
  /\ IsCompound(Applied)
  /\ getFunctionParameters(Applied) = Arr(<<>>)

\* C25: (f), f bound to a compound procedure without parameters, ends as the
\* procedure applied to no argument: the body is evaluated in a new frame and
\* the value of its last expression is returned, on every such call.
C25_NoOperandApplication ==
  NoOperandCall =>
    LET a == apply(Applied, <<>>, Fresh(before), lesson, MaxDepth)
    IN /\ status = a.status
       /\ result = a.val
       /\ frames = a.frames
       /\ Len(frames) = Len(before) + 1

\* C25 fails on the code: (g), g bound to (lambda () 1), is looked up as the
\* variable g and the procedure itself is returned, its body not evaluated
C25_ProcedureReturned ==
  /\ NoOperandCall
  /\ expression = Call0(SymG)
  /\ status = "ok"
  /\ result = Applied
  /\ result # Num(1)
  /\ frames = before
  /\ Len(trace) = 1

\* ---- the frames applications create (C26) ----
SymB == Sym(<<"b">>)
SymP == Sym(<<"p">>)
\* (define (f a b) (+ a b))
DefineF2Pure == Arr(<<Sym(DefineTag), Arr(<<SymF, SymA, SymB>>), Call2(SymPlus, SymA, SymB)>>)
\* (define (g a) (set! a (+ a 1)) (define z a) z)
DefineGWrites ==
  Arr(<<Sym(DefineTag), Arr(<<SymG, SymA>>),
        Assign(SymA, Call2(SymPlus, SymA, Num(1))), Define(SymZ, SymA), SymZ>>)
\* (define (p __proto__) 1)
DefineProtoParameter == Arr(<<Sym(DefineTag), Arr(<<SymP, Sym(ProtoKey)>>), Num(1)>>)
\* (define (d a a) a)
DefineTwiceA == Arr(<<Sym(DefineTag), Arr(<<SymD, SymA, SymA>>), SymA>>)
\* (f (g 1) (g 2))
CallNested == Call2(SymF, Call1(SymG, Num(1)), Call1(SymG, Num(2)))

FrameSuite ==
  { DefineF2Pure, DefineGWrites, DefineProtoParameter, DefineTwiceA,
    Call2(SymF, Num(1), Num(2)), Call1(SymG, Num(5)), CallNested,
    Call1(SymP, Num(5)), Call2(SymD, Num(1), Num(2)),
    BlockDefines, IfTrue, CondSingle, Lambda1(<<SymA>>, SymA), Call2(SymPlus, Num(1), Num(2)),
    Assign(SymX, Num(2)) }

InitFrame == InitFor({7})
NextFrame == \E p \in FrameSuite, E \in EnvironmentArguments : Evaluate(p, E)
SpecFrame == InitFrame /\ [][NextFrame]_vars

\* e applies one of the names the suite binds to compound procedures
IsProcedureCall(e) == e.t = "arr" /\ Len(e.a) >= 2 /\ e.a[1] \in {SymF, SymG, SymP, SymD}

\* the last call applied such a name to numbers and returned
ProcedureCalled ==
  /\ IsProcedureCall(expression)
  /\ \A i \in 2..Len(expression.a) : expression.a[i].t = "num"
  /\ status = "ok"

\* no expression of the body of the procedure is a definition or an assignment
BodyWritesNothing(f) ==
  \A i \in 1..Len(getFunctionBody(f).a) :
    ~isDefinition(getFunctionBody(f).a[i]) /\ ~isAssignment(getFunctionBody(f).a[i])

\* C26: a call that returns has created one frame for each application of a
\* compound procedure it evaluated and no other (none for a built-in, begin,
\* if, cond, define, set!, lambda); the frame of (f v1 ... vn) is a child of
\* the closure environment and holds exactly parameter i bound to vi; and the
\* frames of earlier invocations are left as they were.
C26_OneFramePerApplication ==
  /\ status = "ok" =>
       Len(frames) = Len(before) +
         Cardinality({i \in EvalEvents(trace) : IsProcedureCall(trace[i][2])})
  /\ ProcedureCalled =>
       LET parameters == getFunctionParameters(Applied).a
           created == frames[Len(before) + 1]
       IN /\ created.parent = Applied.env
          /\ BodyWritesNothing(Applied) =>
               /\ DOMAIN created.b = {ToStr(parameters[i]) : i \in 1..Len(parameters)}
               /\ \A i \in 1..Len(parameters) :
                    created.b[ToStr(parameters[i])] = expression.a[i + 1]
          /\ \A j \in (TheGlobalEnvironment + 1)..Len(before) : frames[j] = before[j]

\* C26 fails on the code: (p 5), p defined (define (p __proto__) 1), creates
\* a frame that holds no binding at all
C26_ParameterNotBound ==
  /\ ProcedureCalled
  /\ expression = Call1(SymP, Num(5))
  /\ getFunctionParameters(Applied) = Arr(<<Sym(ProtoKey)>>)
  /\ Len(frames) = Len(before) + 1
  /\ DOMAIN frames[Len(frames)].b = {}

\* ---- closure environments are shared, not copied (C27) ----
SymSetx == Sym(<<"s", "e", "t", "x">>)
SymR == Sym(<<"r">>)
SymV == Sym(<<"v">>)
\* (define (setx v) (set! x v))
DefineSetx == Arr(<<Sym(DefineTag), Arr(<<SymSetx, SymV>>), Assign(SymX, SymV)>>)
\* (define (r n) r)
DefineSelf == Arr(<<Sym(DefineTag), Arr(<<SymR, SymN>>), SymR>>)
\* ((lambda (x) (define (getx y) x) (define (setx v) (set! x v)) (setx 5) (getx 0)) 1)
SharedFrame ==
  Arr(<<Arr(<<Sym(LambdaTag), Arr(<<SymX>>), DefineGetx, DefineSetx,
              Call1(SymSetx, Num(5)), Call1(SymGetx, Num(0))>>),
        Num(1)>>)

\* (begin (define x 1) (define (getx y) x) (define (setx v) (set! x v)))
SetupShared == Begin(<<Define(SymX, Num(1)), DefineGetx, DefineSetx>>)

ReferenceSuite ==
  { SetupShared, DefineGetx, DefineSelf, Define(SymX, Num(2)),
    Call1(SymGetx, Num(0)), Call1(SymSetx, Num(5)), Call1(SymR, Num(0)), SharedFrame, SymX }

InitReference == InitFor({6, 7})
NextReference == \E p \in ReferenceSuite, E \in EnvironmentArguments : Evaluate(p, E)
SpecReference == InitReference /\ [][NextReference]_vars

\* the last call applied the name f, bound to a compound procedure, to a number
NamedCall(f) ==
  /\ expression.t = "arr"
  /\ Len(expression.a) = 2
  /\ expression.a[1] = f
  /\ expression.a[2].t = "num"
  /\ HasProperty(before, EnvOf(environment), f.s)
  /\ IsCompound(Applied)

\* C27: a procedure reads and writes the frame it was created in as that frame
\* is when the procedure runs: (getx 0) answers the x its closure environment
\* binds now, bound or changed after getx was created; (setx k) changes it for
\* a getx created in the same frame; (r 0) finds r, bound after the procedure
\* was created; getx and setx created in one activation frame share its x.
C27_CapturedByReference ==
  /\ NamedCall(SymGetx) =>
       IF HasProperty(before, Applied.env, SymX.s)
       THEN status = "ok" /\ result = GetProperty(before, Applied.env, SymX.s)
       ELSE status = "ReferenceError"
  /\ (NamedCall(SymSetx) /\ HasProperty(before, Applied.env, SymX.s)) =>
       /\ status = "ok"
       /\ GetProperty(frames, Applied.env, SymX.s) = expression.a[2]
       /\ LET getx == GetProperty(frames, EnvOf(environment), SymGetx.s)
          IN (IsCompound(getx) /\ getx.env = Applied.env) =>
               evaluate(Call1(SymGetx, Num(0)), environment, Fresh(frames), lesson, MaxDepth).val
                 = expression.a[2]
  /\ NamedCall(SymR) => (status = "ok" /\ result = Applied)
  /\ expression = SharedFrame =>
       /\ status = "ok"
       /\ result = Num(5)
       /\ frames[Len(before) + 1].b[SymX.s] = Num(5)

\* x was 1 or 2 when (setx 5) was called, getx and setx created in the global
\* frame; afterwards getx answers 5
C27_LaterWriteSeen ==
  /\ NamedCall(SymSetx)
  /\ expression = Call1(SymSetx, Num(5))
  /\ Applied.env = TheGlobalEnvironment
  /\ GetProperty(before, TheGlobalEnvironment, SymX.s) \in {Num(1), Num(2)}
  /\ IsCompound(GetProperty(frames, TheGlobalEnvironment, SymGetx.s))
  /\ status = "ok"
  /\ evaluate(Call1(SymGetx, Num(0)), 0, Fresh(frames), lesson, MaxDepth).val = Num(5)

\* ---- lambda expressions (C28) ----
\* (lambda (a) (define x 1) (set! y 2) (print a))
LambdaWrites ==
  Arr(<<Sym(LambdaTag), Arr(<<SymA>>), Define(SymX, Num(1)), Assign(SymY, Num(2)),
        Call1(SymPrint, SymA)>>)
\* (lambda (a b)): no body
LambdaNoBody == Arr(<<Sym(LambdaTag), Arr(<<SymA, SymB>>)>>)

LambdaSuite ==
  { LambdaWrites, LambdaNoBody, Lambda1(<<SymA>>, SymA), Lambda1(<<>>, Num(1)),
    Define(SymF, LambdaWrites), Call1(SymF, Num(1)), DefineGA, Call1(SymG, Num(5)),
    Define(SymY, Num(0)), SymX }

InitLambda == InitFor({6, 7})
NextLambda == \E p \in LambdaSuite, E \in EnvironmentArguments : Evaluate(p, E)
SpecLambda == InitLambda /\ [][NextLambda]_vars

\* the last call evaluated (lambda parameters body...)
LambdaEvaluated ==
  /\ expression.t = "arr"
  /\ Len(expression.a) >= 2
  /\ expression.a[1] = Sym(LambdaTag)

\* C28: a lambda expression evaluated in E returns the compound procedure of
\* its parameters and its body with E as closure environment; the only
\* expression evaluated is the lambda itself and no frame is changed or made.
C28_LambdaMakesClosure ==
  LambdaEvaluated =>
    /\ status = "ok"
    /\ IsCompound(result)
    /\ getFunctionParameters(result) = expression.a[2]
    /\ getFunctionBody(result) = Arr(SubSeq(expression.a, 3, Len(expression.a)))
    /\ result.env = EnvOf(environment)
    /\ trace = <<<<"eval", expression, EnvOf(environment)>>>>
    /\ frames = before

\* (lambda (a) (define x 1) (set! y 2) (print a)) evaluated in an activation
\* frame where y is unbound: the call returns, where the set! of the body would
\* fail, and x stays unbound
C28_BodyNotRun ==
  /\ LambdaEvaluated
  /\ expression = LambdaWrites
  /\ environment > TheGlobalEnvironment
  /\ status = "ok"
  /\ result.env = environment
  /\ ~HasProperty(frames, environment, SymX.s)
  /\ ~HasProperty(frames, environment, SymY.s)

\* ---- the cond transformation leaves its node alone (C29) ----
\* mutant: the clauses are taken off the node one by one as they are expanded
condToIfConsuming(e) == [expansion |-> condToIf(e), node |-> Arr(<<e.a[1]>>)]

\* condToIf with the state it leaves its argument in.  getCondClauses and
\* getCondActions copy with slice, getCondPredicate and expandCondClauses read
\* by index, makeIf and makeBegin build new arrays: no element of the node or
\* of a clause is written, and nothing is kept from one call to the next.
condToIfOn(e) == [expansion |-> condToIf(e), node |-> e]

\* the top-level call evaluate(p, E) reaches the cond branch
ReachesCond(p) ==
  /\ p.t = "arr"
  /\ ~isSelfEvaluating(p) /\ ~isVariable(p, lesson)
  /\ ~isDefinition(p) /\ ~isAssignment(p) /\ ~isLambda(p) /\ ~isBlock(p) /\ ~isIf(p)
  /\ lesson = 7 /\ isCond(p)

\* (cond ((= x 0) (set! x 1)) (else 'b))
CondFlip == Cond(<<Arr(<<XIs(0), Assign(SymX, Num(1))>>), Arr(<<SymElse, QuoteB>>)>>)

ExpandSuite ==
  { CondFlip, CondSingle, CondDefine, CondPrint, CondElseAfterTrue,
    Define(SymX, Num(0)), Define(SymX, Num(2)), DefineCondF, Call1(SymF, Num(0)), SymX, SymY }

\* one top-level call evaluate(p, E) on an array object: the expression
\* recorded is the object as the call leaves it
EvaluateNode(p, E) ==
  /\ calls < MaxCalls
  /\ LET r == evaluate(p, E, Fresh(frames), lesson, MaxDepth)
     IN /\ frames' = r.frames
        /\ result' = r.val
        /\ status' = r.status
        /\ trace' = r.trace
  /\ expression' = IF ReachesCond(p) THEN condToIfOn(p).node ELSE p
  /\ environment' = E
  /\ before' = frames
  /\ calls' = calls + 1
  /\ UNCHANGED lesson

\* an expression of the suite is evaluated, or the object evaluated last is
\* evaluated once more
InitExpand == InitFor({7})
NextExpand ==
  \E p \in ExpandSuite \cup (IF calls > 0 THEN {expression} ELSE {}),
     E \in EnvironmentArguments : EvaluateNode(p, E)
SpecExpand == InitExpand /\ [][NextExpand]_vars

AssignFromDefine == Assign(SymZ, Define(SymY, Num(1)))
\* (set! z (g 5))
AssignFromCall == Assign(SymZ, Call1(SymG, Num(5)))

FailedAssignSuite ==
  { Assign(SymZ, Num(1)), Assign(SymZ, Call2(SymPlus, Num(1), Num(2))), Assign(SymZ, SymQ),
    AssignFromDefine, AssignFromCall, Define(SymZ, Num(0)), Define(SymX, Num(1)),
    Assign(SymX, Num(2)), DefineGA, Call1(SymG, Num(5)), SymY, SymZ }

InitFailedAssign == InitFor(Lessons)
NextFailedAssign == \E p \in FailedAssignSuite, E \in EnvironmentArguments : Evaluate(p, E)
SpecFailedAssign == InitFailedAssign /\ [][NextFailedAssign]_vars

\* the last call was (set! name e), no frame of the chain owned name, e alone
\* evaluates to a value, and the call failed with the unbound-name error
AssignmentFailedUnowned ==
  /\ Assigned
  /\ OwnersBefore(AssignedKey) = {}
  /\ evaluate(getAssignmentValue(expression), environment, Fresh(before), lesson, MaxDepth).status = "ok"
  /\ status = "ReferenceError"

\* C30: after (set! name e) has failed because no frame of the chain owns
\* name, the frames are those the call started with: no frame more, no
\* binding more, no value changed.
C30_FailedAssignmentChangesNothing ==
  AssignmentFailedUnowned => frames = before

\* C30 fails on the code: the value is evaluated before the name is looked
\* up, so (set! z (define y 1)) with z unbound binds y and then fails
C30_ValueEvaluatedFirst ==
  /\ AssignmentFailedUnowned
  /\ expression = AssignFromDefine
  /\ ~HasProperty(before, EnvOf(environment), SymY.s)
  /\ GetProperty(frames, EnvOf(environment), SymY.s) = Num(1)

=============================================================================
